---- MODULE Spec2Model ----
(***************************************************************************)
(* Model of the Nakama match handler of the Mall App server module         *)
(* (src/unnamed/part_001, the most evolved revision of main.ts): the AOI   *)
(* grid, the match state, and the handlers matchJoinAttempt, matchJoin,    *)
(* matchLeave and matchLoop.                                               *)
(*                                                                         *)
(* Coordinates are integers.  Distances are compared through their         *)
(* squares: for integer dx, dy and an integer bound b, Math.sqrt is        *)
(* correctly rounded and monotone, so sqrt(dx*dx+dy*dy) <= b exactly when  *)
(* dx*dx+dy*dy <= b*b, and likewise for < and >.                           *)
(***************************************************************************)
EXTENDS Integers, Sequences, FiniteSets, TLC

VARIABLES
    players,         \* state.players: userId -> MatchPlayer
    aoiGrid,         \* state.aoiGrid: [cells, playerCells]
    pendingUpdates,  \* state.pendingUpdates: JS object, as <<key, value>> pairs in insertion order
    now,             \* Date.now() of the host, in ms
    pc,              \* position of the host in matchLoop: "idle" or "loop"; "error" once an
                     \* exception has left matchLoop and the host has stopped the match
    handled,         \* inbound messages handled by matchLoop so far
    accepted,        \* host side: candidates whose matchJoinAttempt was accepted, not yet joined
    ret,             \* return value of the last matchJoinAttempt
    sent,            \* dispatcher.broadcastMessage calls of the last handler invocation
    last,            \* history: the message matchLoop handled last in its last invocation,
                     \* with the sender's player state and pending update before it
    rejoined,        \* history: the player states the last matchJoin replaced, by user id
    codec,           \* the last call of a wire-format function: its name, input and result
    acceptedAt,      \* history: by user id, Date.now() of the player's last position update
                     \* whose claimed position was stored
    storage,         \* the host's storage engine: the objects written so far
    rpc,             \* the last RPC call: its function, caller, payload, outcome, host calls
    departed,        \* history: the users the last handler invocation removed, when it was
                     \* matchLeave, kept while the tick that follows takes its messages
    known,           \* history: for each user in the session, the users that the welcome
                     \* and the notifications delivered to it say are in the session
    batch            \* history: the messages of the last matchLoop invocation taken whole

vars == <<players, aoiGrid, pendingUpdates, now, pc, handled, accepted, ret, sent, last,
          rejoined, codec, acceptedAt, storage, rpc, departed, known, batch>>

----------------------------------------------------------------------------
(* Program constants *)

AOI_CELL_SIZE == 200
AOI_RADIUS == 600

OP_PLAYER_MOVE == 1
OP_PLAYER_STATE == 2
OP_MAP_CHANGE == 3
OP_PLAYER_INPUT == 4
OP_SERVER_POSITION == 5
OP_WELCOME == 1
OP_PLAYER_LEFT == 3
OP_PLAYER_JOINED == 20

RUN_SPEED == 160
\* MAX_SPEED_TOLERANCE = 1.2, in percent
MAX_SPEED_TOLERANCE_PCT == 120
\* tickDt = 1.0 / 20
TICK_RATE == 20
\* the "* 10" lag buffer of maxAllowed
LAG_BUFFER == 10

DIR_LEFT == 0
DIR_RIGHT == 1
DIR_UP == 2
DIR_DOWN == 3
DIR_NONE == 4

STALE_MS == 5000
EXTREME_DISTANCE == 1000
MIN_DISTANCE == 5

defaultX == 96
defaultY == 384

----------------------------------------------------------------------------
(* Bounds of the model *)

UserIds == {"u1", "u2", "u3"}

\* state.maxPlayers (params.maxPlayers of matchInit)
MaxPlayers == 2

----------------------------------------------------------------------------
(* JavaScript numbers *)

\* A JSON value that is no number where a number is expected: a text such as "abc".
\* It is stored as it is, and every arithmetic operation on it yields NaN.
NotNumber == -777777
\* The number NaN: every comparison with it is false.
NaN == -888888

IsNumber(v) == v # NotNumber /\ v # NaN

\* a + b, a < b and a <= b of JavaScript
JsPlus(a, b) == IF IsNumber(a) /\ IsNumber(b) THEN a + b ELSE NaN
JsLess(a, b) == IsNumber(a) /\ IsNumber(b) /\ a < b
JsLeq(a, b) == IsNumber(a) /\ IsNumber(b) /\ a <= b

----------------------------------------------------------------------------
(* AOI grid *)

createAOIGrid == [cells |-> <<>>, playerCells |-> <<>>]

\* Math.floor(x / cellSize), Math.floor(y / cellSize); the key 'cx,cy' as a pair
aoiGetCellKey(x, y) ==
    <<IF IsNumber(x) THEN x \div AOI_CELL_SIZE ELSE NaN,
      IF IsNumber(y) THEN y \div AOI_CELL_SIZE ELSE NaN>>

\* delete obj[key]
ObjDelete(obj, key) == [k \in (DOMAIN obj) \ {key} |-> obj[k]]

\* obj[key] = value
ObjPut(obj, key, value) ==
    [k \in (DOMAIN obj) \cup {key} |-> IF k = key THEN value ELSE obj[k]]

CellsWithout_KeepEmpty(cells, cell, userId) ==
    IF cell \in DOMAIN cells
    THEN ObjPut(cells, cell, cells[cell] \ {userId})
    ELSE cells

\* delete grid.cells[cell][userId], and the cell itself once it is empty
CellsWithout(cells, cell, userId) ==
    IF cell \in DOMAIN cells
    THEN IF cells[cell] \ {userId} = {}
         THEN ObjDelete(cells, cell)
         ELSE ObjPut(cells, cell, cells[cell] \ {userId})
    ELSE cells

aoiUpdatePlayer_KeepOld(grid, userId, x, y) ==
    LET newCell == aoiGetCellKey(x, y)
        members == IF newCell \in DOMAIN grid.cells THEN grid.cells[newCell] ELSE {}
    IN  [cells |-> ObjPut(grid.cells, newCell, members \cup {userId}),
         playerCells |-> ObjPut(grid.playerCells, userId, newCell)]

aoiUpdatePlayer(grid, userId, x, y) ==
    LET newCell == aoiGetCellKey(x, y)
        hasOld == userId \in DOMAIN grid.playerCells
    IN  IF hasOld /\ grid.playerCells[userId] = newCell
        THEN grid
        ELSE LET removed == IF hasOld
                            THEN CellsWithout(grid.cells, grid.playerCells[userId], userId)
                            ELSE grid.cells
                 members == IF newCell \in DOMAIN removed THEN removed[newCell] ELSE {}
             IN  [cells |-> ObjPut(removed, newCell, members \cup {userId}),
                  playerCells |-> ObjPut(grid.playerCells, userId, newCell)]

aoiRemovePlayer_KeepIndex(grid, userId) ==
    [cells |-> IF userId \in DOMAIN grid.playerCells
               THEN CellsWithout(grid.cells, grid.playerCells[userId], userId)
               ELSE grid.cells,
     playerCells |-> grid.playerCells]

aoiRemovePlayer(grid, userId) ==
    [cells |-> IF userId \in DOMAIN grid.playerCells
               THEN CellsWithout(grid.cells, grid.playerCells[userId], userId)
               ELSE grid.cells,
     playerCells |-> ObjDelete(grid.playerCells, userId)]

cellRadius_OneLess(radius) == (radius + AOI_CELL_SIZE - 1) \div AOI_CELL_SIZE - 1

\* line 205: Math.ceil(radius / grid.cellSize)
cellRadius(radius) == (radius + AOI_CELL_SIZE - 1) \div AOI_CELL_SIZE

aoiGetPlayersInRadius_Everyone(grid, centerX, centerY, radius) ==
    DOMAIN grid.playerCells

aoiGetPlayersInRadius(grid, centerX, centerY, radius) ==
    LET centerCell == aoiGetCellKey(centerX, centerY)
        scanned == {<<JsPlus(centerCell[1], dx), JsPlus(centerCell[2], dy)>> :
                        dx \in -cellRadius(radius)..cellRadius(radius),
                        dy \in -cellRadius(radius)..cellRadius(radius)}
    IN  UNION {grid.cells[c] : c \in scanned \cap DOMAIN grid.cells}

----------------------------------------------------------------------------
(* Wire formats *)

\* An optional value (undefined, or a value) is a sequence of length 0 or 1.
Undefined == <<>>
Some(v) == <<v>>

\* Math.round of the fraction q.num / q.den: the nearest integer, a tie going up
MathRound(q) == (2 * q.num + q.den) \div (2 * q.den)

Int16LE_BigEndian(v) == LET w == v % 65536 IN <<w \div 256, w % 256>>

\* view.setInt16(o, Math.round(v), true): two bytes, little endian, wrapped to 16 bits
Int16LE(v) ==
    LET w == IF IsNumber(v) THEN v % 65536 ELSE 0
    IN  <<w % 256, w \div 256>>

\* view.getInt16(o, true)
GetInt16LE(lo, hi) == LET w == lo + 256 * hi IN IF w >= 32768 THEN w - 65536 ELSE w

encodeServerPosition_Unmasked(x, y, direction, isRunning, sequence, collided) ==
    <<4>> \o Int16LE(x) \o Int16LE(y)
        \o <<direction,
             (IF isRunning THEN 1 ELSE 0) + (IF collided THEN 2 ELSE 0),
             sequence,
             0>>

\* lines 91-113; x and y are the results of Math.round
encodeServerPosition(x, y, direction, isRunning, sequence, collided) ==
    <<4>> \o Int16LE(x) \o Int16LE(y)
        \o <<direction % 8,
             (IF isRunning THEN 1 ELSE 0) + (IF collided THEN 2 ELSE 0),
             sequence % 256,
             0>>

decodePlayerInput_AnyVersion(data) ==
    IF data.kind # "bin" THEN Undefined
    ELSE IF Len(data.bytes) < 4 THEN Undefined
    ELSE Some([direction |-> data.bytes[2],
               isRunning |-> data.bytes[3] = 1,
               sequence |-> data.bytes[4]])

\* decodePlayerInput on the bytes of a binary payload; a JSON text starts with '{' (123)
decodePlayerInput(data) ==
    IF data.kind # "bin" THEN Undefined
    ELSE IF Len(data.bytes) < 4 THEN Undefined
    ELSE IF data.bytes[1] # 3 THEN Undefined
    ELSE Some([direction |-> data.bytes[2],
               isRunning |-> data.bytes[3] = 1,
               sequence |-> data.bytes[4]])

\* nk.binaryToString raises on bytes that are no UTF-8 text; the binary payloads of
\* the model hold no multi-byte sequence, so a byte above 127 makes the text invalid
BinaryToStringThrows(bytes) == \E i \in 1..Len(bytes) : bytes[i] >= 128

\* view.getFloat32(o, true) of a float32 whose value is an integer
RECURSIVE Pow2(_)
Pow2(n) == IF n = 0 THEN 1 ELSE 2 * Pow2(n - 1)
GetFloat32LE(b0, b1, b2, b3) ==
    LET bits == b0 + 256 * b1 + 65536 * b2
        expo == (b3 % 128) * 2 + (b2 \div 128)
        mant == bits % 8388608
        mag  == IF expo = 0 THEN 0
                ELSE IF expo >= 150 THEN (8388608 + mant) * Pow2(expo - 150)
                ELSE (8388608 + mant) \div Pow2(150 - expo)
    IN  IF b3 >= 128 THEN -mag ELSE mag

\* The payload of a legacy position message (lines 840-877): JSON first; the binary
\* layouts only when binaryToString or JSON.parse raised.
DecodeLegacy(data) ==
    IF data.kind = "json" THEN Some(data.obj)
    ELSE LET b == data.bytes IN
         IF ~BinaryToStringThrows(b) /\ (Len(b) = 0 \/ b[1] # 123) THEN Undefined
         ELSE IF Len(b) >= 7 /\ b[1] = 2
              THEN Some([x |-> Some(GetInt16LE(b[2], b[3])),
                         y |-> Some(GetInt16LE(b[4], b[5])),
                         d |-> Some(b[6]),
                         r |-> Some(b[7] % 2 = 1),
                         c |-> Some((b[7] \div 2) % 2 = 1),
                         map |-> Undefined])
              ELSE IF Len(b) >= 10
                   THEN Some([x |-> Some(GetFloat32LE(b[1], b[2], b[3], b[4])),
                              y |-> Some(GetFloat32LE(b[5], b[6], b[7], b[8])),
                              d |-> Some(b[9]),
                              r |-> Some(b[10] = 1),
                              c |-> Some(FALSE),
                              map |-> Undefined])
                   ELSE Undefined

----------------------------------------------------------------------------
(* JS objects whose key order matters, as sequences of <<key, value>> pairs *)

PairKeys(obj) == {obj[i][1] : i \in 1..Len(obj)}

PairGet(obj, key) == obj[CHOOSE i \in 1..Len(obj) : obj[i][1] = key][2]

PairPut_Append(obj, key, value) == Append(obj, <<key, value>>)

\* obj[key] = value: an existing key keeps its place, a new key goes last
PairPut(obj, key, value) ==
    IF key \in PairKeys(obj)
    THEN [i \in 1..Len(obj) |-> IF obj[i][1] = key THEN <<key, value>> ELSE obj[i]]
    ELSE Append(obj, <<key, value>>)

\* delete obj[key]
PairDelete(obj, key) == SelectSeq(obj, LAMBDA e : e[1] # key)

----------------------------------------------------------------------------
(* Match state and handlers *)

\* The presence the host passes for a user: one connection per user
Presence(u) == [userId |-> u, sessionId |-> "s_" \o u]

Maps == {"outdoors", "indoors"}

\* matchJoin, lines 683-700 (username, node and joinedAt are carried and never read)
NewPlayer(presence, t) ==
    [userId |-> presence.userId,
     sessionId |-> presence.sessionId,
     currentMap |-> "outdoors",
     lastPosition |-> <<defaultX, defaultY>>,
     direction |-> DIR_NONE,
     isRunning |-> FALSE,
     lastInputTime |-> t,
     lastInputSequence |-> 0,
     hasReceivedFirstPosition |-> FALSE,
     collided |-> FALSE]

\* A pending update, lines 827-832, 944-949, 980-985
PendingUpdate(userId, reliable) ==
    [userId |-> userId, opCode |-> OP_SERVER_POSITION, data |-> <<>>, reliable |-> reliable]

JoinAttemptResult_OffByOne(st) ==
    IF Cardinality(DOMAIN st.players) > MaxPlayers
    THEN [accept |-> FALSE, rejectMessage |-> Some("Match is full")]
    ELSE [accept |-> TRUE, rejectMessage |-> Undefined]

\* matchJoinAttempt, lines 649-664
JoinAttemptResult(st) ==
    IF Cardinality(DOMAIN st.players) >= MaxPlayers
    THEN [accept |-> FALSE, rejectMessage |-> Some("Match is full")]
    ELSE [accept |-> TRUE, rejectMessage |-> Undefined]

WelcomeRoster_SelfOnly(ps, u) == [v \in {u} |-> ps[v]]

\* line 707: players: state.players
WelcomeRoster(ps, u) == ps

JoinOne_KeepExisting(st, presence, t) ==
    LET u == presence.userId
        ps == IF u \in DOMAIN st.players THEN st.players
              ELSE ObjPut(st.players, u, NewPlayer(presence, t))
        welcome == [opCode |-> OP_WELCOME,
                    data |-> [type |-> "welcome", players |-> WelcomeRoster(ps, u),
                              playerCount |-> Cardinality(DOMAIN ps),
                              maxPlayers |-> MaxPlayers],
                    toAll |-> FALSE, to |-> {u},
                    sender |-> Undefined, reliable |-> TRUE]
        joined == [opCode |-> OP_PLAYER_JOINED,
                   data |-> [type |-> "player_joined", player |-> ps[u]],
                   toAll |-> TRUE, to |-> {},
                   sender |-> Some(presence), reliable |-> TRUE]
    IN  [st EXCEPT !.players = ps,
                   !.aoiGrid = IF u \in DOMAIN st.players THEN @
                               ELSE aoiUpdatePlayer(@, u, defaultX, defaultY),
                   !.sent = st.sent \o <<welcome, joined>>]

\* One iteration of matchJoin's loop, lines 676-743
JoinOne(st, presence, t) ==
    LET u == presence.userId
        ps == ObjPut(st.players, u, NewPlayer(presence, t))
        welcome == [opCode |-> OP_WELCOME,
                    data |-> [type |-> "welcome", players |-> WelcomeRoster(ps, u),
                              playerCount |-> Cardinality(DOMAIN ps),
                              maxPlayers |-> MaxPlayers],
                    toAll |-> FALSE, to |-> {u},
                    sender |-> Undefined, reliable |-> TRUE]
        joined == [opCode |-> OP_PLAYER_JOINED,
                   data |-> [type |-> "player_joined", player |-> ps[u]],
                   toAll |-> TRUE, to |-> {},
                   sender |-> Some(presence), reliable |-> TRUE]
    IN  [st EXCEPT !.players = ps,
                   !.aoiGrid = aoiUpdatePlayer(st.aoiGrid, u, defaultX, defaultY),
                   !.sent = st.sent \o <<welcome, joined>>]

LeaveOne_KeepGrid(st, presence) ==
    LET u == presence.userId
        left == [opCode |-> OP_PLAYER_LEFT,
                 data |-> [type |-> "player_left", userId |-> u],
                 toAll |-> TRUE, to |-> {},
                 sender |-> Undefined, reliable |-> TRUE]
    IN  [st EXCEPT !.pendingUpdates = PairDelete(st.pendingUpdates, u),
                   !.players = ObjDelete(st.players, u),
                   !.sent = st.sent \o <<left>>]

\* One iteration of matchLeave's loop, lines 757-786
LeaveOne(st, presence) ==
    LET u == presence.userId
        left == [opCode |-> OP_PLAYER_LEFT,
                 data |-> [type |-> "player_left", userId |-> u],
                 toAll |-> TRUE, to |-> {},
                 sender |-> Undefined, reliable |-> TRUE]
    IN  [st EXCEPT !.aoiGrid = aoiRemovePlayer(st.aoiGrid, u),
                   !.pendingUpdates = PairDelete(st.pendingUpdates, u),
                   !.players = ObjDelete(st.players, u),
                   !.sent = st.sent \o <<left>>]

RECURSIVE JoinAll(_, _, _)
JoinAll(st, presences, t) ==
    IF presences = <<>> THEN st
    ELSE JoinAll(JoinOne(st, Head(presences), t), Tail(presences), t)

RECURSIVE LeaveAll(_, _)
LeaveAll(st, presences) ==
    IF presences = <<>> THEN st
    ELSE LeaveAll(LeaveOne(st, Head(presences)), Tail(presences))

----------------------------------------------------------------------------
(* matchLoop, phase 1: one inbound message *)

\* maxAllowed = RUN_SPEED * tickDt * MAX_SPEED_TOLERANCE * 10 (line 885): 96
maxAllowed == (RUN_SPEED * MAX_SPEED_TOLERANCE_PCT * LAG_BUFFER) \div (TICK_RATE * 100)

\* dx * dx + dy * dy, NaN when a coordinate is no number
DistSq(p, q) ==
    IF IsNumber(p[1]) /\ IsNumber(p[2]) /\ IsNumber(q[1]) /\ IsNumber(q[2])
    THEN (p[1] - q[1]) * (p[1] - q[1]) + (p[2] - q[2]) * (p[2] - q[2])
    ELSE NaN

HandleInput_NewerOnly(st, m, t) ==
    LET u == m.sender
        input == decodePlayerInput(m.data)
    IN  IF input = Undefined THEN st
        ELSE IF input[1].sequence <= st.players[u].lastInputSequence THEN st
        ELSE [st EXCEPT
                !.players[u].direction = input[1].direction,
                !.players[u].isRunning = input[1].isRunning,
                !.players[u].lastInputSequence = input[1].sequence,
                !.players[u].lastInputTime = t,
                !.pendingUpdates = PairPut(st.pendingUpdates, u, PendingUpdate(u, TRUE))]

\* lines 814-833
HandleInput(st, m, t) ==
    LET u == m.sender
        input == decodePlayerInput(m.data)
    IN  IF input = Undefined THEN st
        ELSE [st EXCEPT
                !.players[u].direction = input[1].direction,
                !.players[u].isRunning = input[1].isRunning,
                !.players[u].lastInputSequence = input[1].sequence,
                !.players[u].lastInputTime = t,
                !.pendingUpdates = PairPut(st.pendingUpdates, u, PendingUpdate(u, TRUE))]

\* line 894: lastPos.y < 0 || lastPos.x < 0
isPositionInvalid(player) ==
    JsLess(player.lastPosition[2], 0) \/ JsLess(player.lastPosition[1], 0)

isPositionVeryStale_Never(player, t) == FALSE

\* line 895: (now - senderPlayer.lastInputTime) > 5000
isPositionVeryStale(player, t) == (t - player.lastInputTime) > STALE_MS

isExtremeDifference_Never(distSq) == FALSE

\* line 896: distance > 1000
isExtremeDifference(distSq) == JsLess(EXTREME_DISTANCE * EXTREME_DISTANCE, distSq)

\* lines 894-906: the first-position flag after the stale/invalid/extreme reset
FlagAfterReset(player, distSq, t) ==
    IF isPositionInvalid(player) \/ isPositionVeryStale(player, t) \/ isExtremeDifference(distSq)
    THEN FALSE
    ELSE player.hasReceivedFirstPosition

IsValidMovement_Strict(isFirstPosition, distSq) ==
    \/ isFirstPosition
    \/ JsLess(distSq, maxAllowed * maxAllowed)
    \/ JsLess(distSq, MIN_DISTANCE * MIN_DISTANCE)

\* line 912: isFirstPosition || distance <= maxAllowed || distance < 5
IsValidMovement(isFirstPosition, distSq) ==
    \/ isFirstPosition
    \/ JsLeq(distSq, maxAllowed * maxAllowed)
    \/ JsLess(distSq, MIN_DISTANCE * MIN_DISTANCE)

isFirstPosition_Never(flag) == FALSE

\* line 910: const isFirstPosition = !senderPlayer.hasReceivedFirstPosition
isFirstPosition(flag) == ~flag

UpdateReliable_Forced(m, collided) == TRUE

\* line 948: reliable: message.reliable || senderPlayer.collided
UpdateReliable(m, collided) == m.reliable \/ collided

AcceptPosition_NoGrid(st, m, parsed, t) ==
    LET u == m.sender
        old == st.players[u]
        collided == IF parsed.c # Undefined THEN parsed.c[1] ELSE old.collided
        new == [old EXCEPT
                  !.lastPosition = <<parsed.x[1], parsed.y[1]>>,
                  !.direction = IF parsed.d # Undefined THEN parsed.d[1] ELSE @,
                  !.isRunning = IF parsed.r # Undefined THEN parsed.r[1] ELSE @,
                  !.collided = collided,
                  !.lastInputTime = t,
                  !.hasReceivedFirstPosition = TRUE]
    IN  [st EXCEPT
           !.players[u] = new,
           !.pendingUpdates =
               PairPut(st.pendingUpdates, u, PendingUpdate(u, UpdateReliable(m, collided)))]

\* lines 912-949: valid movement
AcceptPosition(st, m, parsed, t) ==
    LET u == m.sender
        old == st.players[u]
        collided == IF parsed.c # Undefined THEN parsed.c[1] ELSE old.collided
        new == [old EXCEPT
                  !.lastPosition = <<parsed.x[1], parsed.y[1]>>,
                  !.direction = IF parsed.d # Undefined THEN parsed.d[1] ELSE @,
                  !.isRunning = IF parsed.r # Undefined THEN parsed.r[1] ELSE @,
                  !.collided = collided,
                  !.lastInputTime = t,
                  !.hasReceivedFirstPosition = TRUE]
    IN  [st EXCEPT
           !.players[u] = new,
           !.aoiGrid = aoiUpdatePlayer(st.aoiGrid, u, parsed.x[1], parsed.y[1]),
           !.pendingUpdates =
               PairPut(st.pendingUpdates, u, PendingUpdate(u, UpdateReliable(m, collided)))]

RejectedState_WithCollision(old, parsed, t) ==
    [old EXCEPT
        !.direction = IF parsed.d # Undefined THEN parsed.d[1] ELSE @,
        !.isRunning = IF parsed.r # Undefined THEN parsed.r[1] ELSE @,
        !.collided = IF parsed.c # Undefined THEN parsed.c[1] ELSE @,
        !.lastInputTime = t]

\* lines 973-976: "Always update direction and isRunning state", and lastInputTime
RejectedState(old, parsed, t) ==
    [old EXCEPT
        !.direction = IF parsed.d # Undefined THEN parsed.d[1] ELSE @,
        !.isRunning = IF parsed.r # Undefined THEN parsed.r[1] ELSE @,
        !.lastInputTime = t]

RejectPosition_KeepPosition(st, m, parsed, t) ==
    LET u == m.sender
        old == st.players[u]
        new == [old EXCEPT
                  !.direction = IF parsed.d # Undefined THEN parsed.d[1] ELSE @,
                  !.isRunning = IF parsed.r # Undefined THEN parsed.r[1] ELSE @,
                  !.lastInputTime = t]
    IN  [st EXCEPT
           !.players[u] = new,
           !.pendingUpdates = PairPut(st.pendingUpdates, u, PendingUpdate(u, TRUE))]

\* lines 950-986: suspicious movement
RejectPosition(st, m, parsed, t) ==
    LET u == m.sender
        old == st.players[u]
        isStopMessage == parsed.r = Some(FALSE)
        new == [RejectedState(old, parsed, t) EXCEPT
                  !.lastPosition = IF isStopMessage THEN <<parsed.x[1], parsed.y[1]>> ELSE @]
    IN  [st EXCEPT
           !.players[u] = new,
           !.aoiGrid = IF isStopMessage
                       THEN aoiUpdatePlayer(st.aoiGrid, u, parsed.x[1], parsed.y[1])
                       ELSE @,
           !.pendingUpdates = PairPut(st.pendingUpdates, u, PendingUpdate(u, TRUE))]

\* lines 952-954: the warning formats lastPos.x.toFixed(0) and lastPos.y.toFixed(0),
\* and a value that is no number has no toFixed: a TypeError leaves matchLoop
RejectLogThrows(lastPos) == lastPos[1] = NotNumber \/ lastPos[2] = NotNumber

\* lines 834-987
HandleLegacy(st, m, t) ==
    LET u == m.sender
        decoded == DecodeLegacy(m.data)
    IN  IF decoded = Undefined THEN st
        ELSE IF decoded[1].x = Undefined \/ decoded[1].y = Undefined THEN st
        ELSE LET parsed == decoded[1]
                 distSq == DistSq(<<parsed.x[1], parsed.y[1]>>, st.players[u].lastPosition)
                 flag == FlagAfterReset(st.players[u], distSq, t)
                 st1 == [st EXCEPT !.players[u].hasReceivedFirstPosition = flag]
             IN  IF IsValidMovement(isFirstPosition(flag), distSq)
                 THEN AcceptPosition(st1, m, parsed, t)
                 ELSE IF RejectLogThrows(st.players[u].lastPosition)
                      THEN [st1 EXCEPT !.threw = TRUE]
                      ELSE RejectPosition(st1, m, parsed, t)

\* lines 912 and 962-971: the claimed position of m ends up as the sender's stored
\* position, by the valid-movement branch or by the trusted stop
PositionStored(st, m, t) ==
    /\ m.sender \in DOMAIN st.players
    /\ m.opCode = OP_PLAYER_MOVE \/ m.opCode = OP_PLAYER_STATE
    /\ DecodeLegacy(m.data) # Undefined
    /\ LET parsed == DecodeLegacy(m.data)[1]
           player == st.players[m.sender]
       IN  /\ parsed.x # Undefined
           /\ parsed.y # Undefined
           /\ LET distSq == DistSq(<<parsed.x[1], parsed.y[1]>>, player.lastPosition)
                  flag == FlagAfterReset(player, distSq, t)
              IN  \/ IsValidMovement(isFirstPosition(flag), distSq)
                  \/ ~RejectLogThrows(player.lastPosition) /\ parsed.r = Some(FALSE)

HandleMapChange_KeepMoving(st, m) ==
    LET u == m.sender IN
    IF m.data.kind = "json" /\ m.data.obj.map # Undefined
    THEN [st EXCEPT
            !.players[u].currentMap = m.data.obj.map[1],
            !.players[u].hasReceivedFirstPosition = FALSE]
    ELSE st

\* lines 988-1013
HandleMapChange(st, m) ==
    LET u == m.sender IN
    IF m.data.kind = "json" /\ m.data.obj.map # Undefined
    THEN [st EXCEPT
            !.players[u].currentMap = m.data.obj.map[1],
            !.players[u].hasReceivedFirstPosition = FALSE,
            !.players[u].isRunning = FALSE,
            !.players[u].direction = DIR_NONE]
    ELSE st

ProcessMessage_AnySender(st, m, t) ==
    IF m.sender \notin DOMAIN st.players
    THEN [st EXCEPT
            !.players = ObjPut(@, m.sender, NewPlayer(Presence(m.sender), t)),
            !.aoiGrid = aoiUpdatePlayer(@, m.sender, defaultX, defaultY),
            !.pendingUpdates = PairPut(@, m.sender, PendingUpdate(m.sender, TRUE))]
    ELSE IF m.opCode = OP_PLAYER_INPUT THEN HandleInput(st, m, t)
    ELSE IF m.opCode = OP_PLAYER_MOVE \/ m.opCode = OP_PLAYER_STATE THEN HandleLegacy(st, m, t)
    ELSE IF m.opCode = OP_MAP_CHANGE THEN HandleMapChange(st, m)
    ELSE st

\* The body of the loop over messages, lines 807-1014
ProcessMessage(st, m, t) ==
    IF m.sender \notin DOMAIN st.players THEN st
    ELSE IF m.opCode = OP_PLAYER_INPUT THEN HandleInput(st, m, t)
    ELSE IF m.opCode = OP_PLAYER_MOVE \/ m.opCode = OP_PLAYER_STATE THEN HandleLegacy(st, m, t)
    ELSE IF m.opCode = OP_MAP_CHANGE THEN HandleMapChange(st, m)
    ELSE st

----------------------------------------------------------------------------
(* matchLoop, phase 2: broadcast with AOI and map filtering *)

Recipients_AnyMap(st, senderId) ==
    LET senderPlayer == st.players[senderId]
        nearbyPlayerIds == aoiGetPlayersInRadius(st.aoiGrid,
                                                 senderPlayer.lastPosition[1],
                                                 senderPlayer.lastPosition[2],
                                                 AOI_RADIUS)
    IN  {playerId \in nearbyPlayerIds :
            /\ playerId # senderId
            /\ playerId \in DOMAIN st.players}

\* lines 1041-1071: same map + within AOI + not sender
Recipients(st, senderId) ==
    LET senderPlayer == st.players[senderId]
        nearbyPlayerIds == aoiGetPlayersInRadius(st.aoiGrid,
                                                 senderPlayer.lastPosition[1],
                                                 senderPlayer.lastPosition[2],
                                                 AOI_RADIUS)
    IN  {playerId \in nearbyPlayerIds :
            /\ playerId # senderId
            /\ playerId \in DOMAIN st.players
            /\ st.players[playerId].currentMap = senderPlayer.currentMap}

\* lines 1078-1097: the payload and opcode of the dispatched message
FrameOf(senderPlayer, update) ==
    IF update.opCode = OP_SERVER_POSITION
    THEN encodeServerPosition(senderPlayer.lastPosition[1],
                              senderPlayer.lastPosition[2],
                              senderPlayer.direction,
                              senderPlayer.isRunning,
                              senderPlayer.lastInputSequence,
                              senderPlayer.collided)
    ELSE update.data

DispatchOne_NullSender(st, senderId, update) ==
    IF senderId \notin DOMAIN st.players THEN st
    ELSE LET senderPlayer == st.players[senderId]
             recipients == Recipients(st, senderId)
             msg == [opCode |-> update.opCode,
                     data |-> FrameOf(senderPlayer, update),
                     toAll |-> FALSE, to |-> recipients,
                     sender |-> Undefined,
                     reliable |-> update.reliable]
         IN  IF recipients = {} THEN st
             ELSE [st EXCEPT
                     !.players[senderId].collided =
                         IF update.opCode = OP_SERVER_POSITION THEN FALSE ELSE @,
                     !.sent = Append(st.sent, msg)]

\* One iteration of the loop over state.pendingUpdates, lines 1036-1116
DispatchOne(st, senderId, update) ==
    IF senderId \notin DOMAIN st.players THEN st
    ELSE LET senderPlayer == st.players[senderId]
             recipients == Recipients(st, senderId)
             msg == [opCode |-> update.opCode,
                     data |-> FrameOf(senderPlayer, update),
                     toAll |-> FALSE, to |-> recipients,
                     sender |-> Some([userId |-> senderPlayer.userId,
                                      sessionId |-> senderPlayer.sessionId]),
                     reliable |-> update.reliable]
         IN  IF recipients = {} THEN st
             ELSE [st EXCEPT
                     !.players[senderId].collided =
                         IF update.opCode = OP_SERVER_POSITION THEN FALSE ELSE @,
                     !.sent = Append(st.sent, msg)]

RECURSIVE DispatchAll(_, _)
DispatchAll(st, updates) ==
    IF updates = <<>> THEN st
    ELSE DispatchAll(DispatchOne(st, Head(updates)[1], Head(updates)[2]), Tail(updates))

ClearUpdates_OnlyDispatched(st) ==
    [st EXCEPT !.pendingUpdates =
        SelectSeq(st.pendingUpdates,
                  LAMBDA e : \A i \in 1..Len(st.sent) : st.sent[i].sender # Some([userId |-> e[1], sessionId |-> Presence(e[1]).sessionId]))]

\* line 1119
ClearUpdates(st) == [st EXCEPT !.pendingUpdates = <<>>]

\* the server moves every running player with a direction by one tick of RUN_SPEED
BroadcastPhase_Simulate(st) ==
    LET step == RUN_SPEED \div TICK_RATE
        Moved(p) ==
            IF p.direction = DIR_NONE \/ ~p.isRunning THEN p
            ELSE [p EXCEPT !.lastPosition =
                     IF p.direction = DIR_LEFT THEN <<JsPlus(@[1], -step), @[2]>>
                     ELSE IF p.direction = DIR_RIGHT THEN <<JsPlus(@[1], step), @[2]>>
                     ELSE IF p.direction = DIR_UP THEN <<@[1], JsPlus(@[2], -step)>>
                     ELSE <<@[1], JsPlus(@[2], step)>>]
        simulated == [st EXCEPT !.players = [u \in DOMAIN st.players |-> Moved(st.players[u])]]
    IN  ClearUpdates(DispatchAll(simulated, simulated.pendingUpdates))

\* lines 1036-1121
BroadcastPhase(st) == ClearUpdates(DispatchAll(st, st.pendingUpdates))

\* The loop over the messages of the batch, lines 807-1014; an exception leaves it
RECURSIVE RunMessages(_, _, _)
RunMessages(st, msgs, t) ==
    IF msgs = <<>> \/ st.threw THEN st
    ELSE RunMessages(ProcessMessage(st, Head(msgs), t), Tail(msgs), t)

matchLoop_DispatchFirst(st, msgs, t) ==
    LET processed == RunMessages(st, msgs, t)
        first == IF processed.pendingUpdates = <<>> THEN <<>>
                 ELSE <<Head(processed.pendingUpdates)>>
    IN  IF processed.threw THEN processed
        ELSE ClearUpdates(DispatchAll(processed, first))

\* matchLoop on a whole batch, lines 800-1121: `now` is read once, at line 800
matchLoop(st, msgs, t) ==
    LET processed == RunMessages(st, msgs, t)
    IN  IF processed.threw THEN processed ELSE BroadcastPhase(processed)

----------------------------------------------------------------------------
(* The inputs of the model *)

\* inbound messages explored, over all matchLoop invocations
MaxMessages == 3
\* the clock advances while it is below MaxAdvances * STALE_MS
MaxAdvances == 1
\* presences per matchJoin / matchLeave invocation
MaxPresences == 2

TimeSteps == {STALE_MS, STALE_MS + 1}

NoObj == [x |-> Undefined, y |-> Undefined, d |-> Undefined, r |-> Undefined,
          c |-> Undefined, map |-> Undefined]

Json(obj) == [kind |-> "json", obj |-> obj, bytes |-> <<>>]
Bin(bytes) == [kind |-> "bin", obj |-> NoObj, bytes |-> bytes]

\* JSON text {"x":..,"y":..,"d":..,"r":..,"c":..}
JsonPosition(p, d, r, c) ==
    Json([NoObj EXCEPT !.x = Some(p[1]), !.y = Some(p[2]), !.d = Some(d),
                       !.r = Some(r), !.c = Some(c)])

\* JSON text {"d":{"map":..}}
JsonMap(map) == Json([NoObj EXCEPT !.map = Some(map)])

\* the 4 bytes of an input v3 message
InputV3(direction, flags, sequence) == Bin(<<3, direction, flags, sequence>>)

\* the 7 bytes of a legacy position v2 message
PositionV2(p, d, flags) == Bin(<<2>> \o Int16LE(p[1]) \o Int16LE(p[2]) \o <<d, flags>>)

Message(u, opCode, data, reliable) ==
    [sender |-> u, opCode |-> opCode, data |-> data, reliable |-> reliable]

\* Positions claimed by clients
PA == <<100, 100>>
PB == <<500, 500>>
PG == <<1150, 500>>
Points == {PA, PB, PG}

Payloads ==
    {<<OP_PLAYER_MOVE, JsonPosition(p, DIR_RIGHT, r, FALSE), FALSE>> : p \in Points, r \in BOOLEAN}
    \cup {<<OP_PLAYER_INPUT, InputV3(DIR_LEFT, 1, 1), FALSE>>}
    \cup {<<OP_MAP_CHANGE, JsonMap(map), TRUE>> : map \in Maps}

\* the users that send messages
Senders == {"u1", "u2"}

Messages == {Message(u, pl[1], pl[2], pl[3]) : u \in Senders, pl \in Payloads}

\* Non-empty sequences of distinct members of S, of length at most MaxPresences
RECURSIVE SeqsUpTo(_, _)
SeqsUpTo(S, n) ==
    IF n = 0 THEN {<<>>}
    ELSE LET shorter == SeqsUpTo(S, n - 1)
         IN  shorter \cup {Append(q, e) : q \in {r \in shorter : Len(r) = n - 1},
                                           e \in S}
Distinct(q) == \A i, j \in 1..Len(q) : i # j => q[i] # q[j]
PresenceLists(S) == {q \in SeqsUpTo(S, MaxPresences) : q # <<>> /\ Distinct(q)}

----------------------------------------------------------------------------
(* The host: one handler invocation at a time *)

\* the state object a handler works on; threw: an exception left the handler
State == [players |-> players, aoiGrid |-> aoiGrid,
          pendingUpdates |-> pendingUpdates, sent |-> sent, threw |-> FALSE]

NoRet == [accept |-> FALSE, rejectMessage |-> Undefined]

\* no wire-format function was called
NoCall == [fn |-> "none", input |-> <<>>, output |-> <<>>]

\* no RPC was called
NoRpc == [fn |-> "none", ctx |-> "", input |-> <<>>, output |-> <<>>, before |-> {}]

Init ==
    /\ players = <<>>
    /\ aoiGrid = createAOIGrid
    /\ pendingUpdates = <<>>
    /\ now = 0
    /\ pc = "idle"
    /\ handled = 0
    /\ accepted = {}
    /\ ret = NoRet
    /\ sent = <<>>
    /\ last = <<>>
    /\ rejoined = <<>>
    /\ codec = NoCall
    /\ acceptedAt = <<>>
    /\ storage = {}
    /\ rpc = NoRpc
    /\ departed = {}
    /\ known = [u \in UserIds |-> {}]
    /\ batch = <<>>

Becomes(st) ==
    /\ players' = st.players
    /\ aoiGrid' = st.aoiGrid
    /\ pendingUpdates' = st.pendingUpdates
    /\ sent' = st.sent

\* Date.now() moves on between two handler invocations
\* What one dispatched message tells the users it is delivered to: a welcome replaces
\* what its recipient knows by the roster, a player-joined notification adds its player
\* and a player-left notification takes its user away.  present is the set of the users
\* connected to the match, who receive a message without a list of recipients.
TellOne(k, msg, present) ==
    LET to == IF msg.toAll THEN present ELSE msg.to
    IN  [u \in DOMAIN k |->
            IF u \notin to THEN k[u]
            ELSE IF msg.opCode = OP_WELCOME THEN DOMAIN msg.data.players
            ELSE IF msg.opCode = OP_PLAYER_JOINED THEN k[u] \cup {msg.data.player.userId}
            ELSE IF msg.opCode = OP_PLAYER_LEFT THEN k[u] \ {msg.data.userId}
            ELSE k[u]]

RECURSIVE TellAll(_, _, _)
TellAll(k, msgs, present) ==
    IF msgs = <<>> THEN k
    ELSE TellAll(TellOne(k, Head(msgs), present), Tail(msgs), present)

\* a user that is no longer in the session has no connection that knows anything
Heard(k, msgs, present) ==
    LET told == TellAll(k, msgs, present)
    IN  [u \in DOMAIN k |-> IF u \in present THEN told[u] ELSE {}]

Advance(d) ==
    /\ pc = "idle"
    /\ now < MaxAdvances * STALE_MS
    /\ now' = now + d
    /\ UNCHANGED <<players, aoiGrid, pendingUpdates, pc, handled, accepted, ret, sent, last,
                   rejoined, codec, acceptedAt, storage, rpc, departed, known, batch>>

MatchJoinAttempt(u) ==
    /\ pc = "idle"
    /\ LET r == JoinAttemptResult(State)
       IN  /\ ret' = r
           /\ accepted' = IF r.accept THEN accepted \cup {u} ELSE accepted
    /\ sent' = <<>>
    /\ last' = <<>>
    /\ rejoined' = <<>>
    /\ departed' = {}
    /\ UNCHANGED <<players, aoiGrid, pendingUpdates, now, pc, handled, codec, acceptedAt, storage,
                   rpc, known, batch>>

MatchJoin(us) ==
    /\ pc = "idle"
    /\ Becomes(JoinAll([State EXCEPT !.sent = <<>>], [i \in 1..Len(us) |-> Presence(us[i])], now))
    /\ accepted' = accepted \ {us[i] : i \in 1..Len(us)}
    /\ ret' = NoRet
    /\ last' = <<>>
    /\ rejoined' = [u \in {us[i] : i \in 1..Len(us)} \cap DOMAIN players |-> players[u]]
    /\ acceptedAt' = [u \in DOMAIN acceptedAt \ {us[i] : i \in 1..Len(us)} |-> acceptedAt[u]]
    /\ departed' = {}
    /\ known' = Heard(known, sent', DOMAIN players')
    /\ UNCHANGED <<now, pc, handled, codec, storage, rpc, batch>>

MatchLeave(us) ==
    /\ pc = "idle"
    /\ Becomes(LeaveAll([State EXCEPT !.sent = <<>>], [i \in 1..Len(us) |-> Presence(us[i])]))
    /\ ret' = NoRet
    /\ last' = <<>>
    /\ rejoined' = <<>>
    /\ acceptedAt' = [u \in DOMAIN acceptedAt \ {us[i] : i \in 1..Len(us)} |-> acceptedAt[u]]
    /\ departed' = {us[i] : i \in 1..Len(us)}
    /\ known' = Heard(known, sent', DOMAIN players')
    /\ UNCHANGED <<now, pc, handled, accepted, codec, storage, rpc, batch>>

\* matchLoop is entered: lines 800-801
MatchLoopBegin ==
    /\ pc = "idle"
    /\ pc' = "loop"
    /\ sent' = <<>>
    /\ ret' = NoRet
    /\ last' = <<>>
    /\ rejoined' = <<>>
    /\ UNCHANGED <<players, aoiGrid, pendingUpdates, now, handled, accepted, codec, acceptedAt, storage, rpc, departed, known, batch>>

\* the next message of the batch: one iteration of lines 807-1014
MatchLoopMessage(m) ==
    /\ pc = "loop"
    /\ handled < MaxMessages
    /\ handled' = handled + 1
    /\ LET st == ProcessMessage(State, m, now)
       IN  /\ Becomes(st)
           /\ pc' = IF st.threw THEN "error" ELSE pc
    /\ last' = Some([m |-> m,
                     t |-> now,
                     before |-> IF m.sender \in DOMAIN players
                                THEN Some(players[m.sender]) ELSE Undefined,
                     hadUpdate |-> m.sender \in PairKeys(pendingUpdates)])
    /\ acceptedAt' = IF PositionStored(State, m, now)
                     THEN ObjPut(acceptedAt, m.sender, now)
                     ELSE acceptedAt
    /\ UNCHANGED <<now, accepted, ret, rejoined, codec, storage, rpc, departed, known, batch>>

\* the batch is exhausted: lines 1036-1121, and matchLoop returns
MatchLoopBroadcast ==
    /\ pc = "loop"
    /\ pc' = "idle"
    /\ Becomes(BroadcastPhase(State))
    /\ departed' = {}
    /\ UNCHANGED <<now, handled, accepted, ret, last, rejoined, codec, acceptedAt, storage, rpc,
                   known, batch>>

\* The users a dispatched message goes to.  A presences argument of null addresses the
\* whole match, and the sender argument only tags the message: the host takes nobody
\* out of the recipients for it.  When matchJoin or matchLeave runs, the presences of
\* the match are the players of the state the handler returns.
Delivered(msg) == IF msg.toAll THEN DOMAIN players ELSE msg.to

\* the host asks for a user that is not in the match and has no accepted attempt waiting
Candidates == UserIds \ (accepted \cup DOMAIN players)

Next ==
    \/ \E u \in Candidates : MatchJoinAttempt(u)
    \/ \E us \in PresenceLists(accepted) : MatchJoin(us)
    \/ \E us \in PresenceLists(DOMAIN players) : MatchLeave(us)
    \/ MatchLoopBegin
    \/ \E m \in Messages : MatchLoopMessage(m)
    \/ MatchLoopBroadcast

Spec == Init /\ [][Next]_vars

----------------------------------------------------------------------------
(* The anti-cheat checks under a moving clock: one sender, boundary positions *)

AcUsers == {"u1", "u2"}

\* from PA: 95, 96 and 97 units away; more than 1000 away; out of bounds
PNear == <<195, 100>>
PEdge == <<196, 100>>
PBeyond == <<197, 100>>
PNegative == <<-10, 100>>
AcPoints == {PA, PNear, PEdge, PBeyond, PG, PNegative}

AcPayloads ==
    {<<OP_PLAYER_MOVE, JsonPosition(p, DIR_RIGHT, r, FALSE), FALSE>> : p \in AcPoints, r \in BOOLEAN}
    \cup {<<OP_PLAYER_STATE, PositionV2(PEdge, DIR_UP, 1), FALSE>>,
          <<OP_PLAYER_INPUT, InputV3(DIR_LEFT, 1, 1), FALSE>>,
          <<OP_MAP_CHANGE, JsonMap("indoors"), TRUE>>}

AcMessages == {Message("u1", pl[1], pl[2], pl[3]) : pl \in AcPayloads}

NextAC ==
    \/ \E d \in TimeSteps : Advance(d)
    \/ \E u \in Candidates \cap AcUsers : MatchJoinAttempt(u)
    \/ \E us \in PresenceLists(accepted) : MatchJoin(us)
    \/ \E us \in PresenceLists(DOMAIN players) : MatchLeave(us)
    \/ MatchLoopBegin
    \/ \E m \in AcMessages : MatchLoopMessage(m)
    \/ MatchLoopBroadcast

SpecAC == Init /\ [][NextAC]_vars

----------------------------------------------------------------------------
(* The AOI grid alone: any sequence of aoiUpdatePlayer and aoiRemovePlayer *)

GridCoords == {-1, 0, 199, 200, 450}

GridUpsert(u, x, y) ==
    /\ aoiGrid' = aoiUpdatePlayer(aoiGrid, u, x, y)
    /\ UNCHANGED <<players, pendingUpdates, now, pc, handled, accepted, ret, sent, last,
                   rejoined, codec, acceptedAt, storage, rpc, departed, known, batch>>

GridRemove(u) ==
    /\ aoiGrid' = aoiRemovePlayer(aoiGrid, u)
    /\ UNCHANGED <<players, pendingUpdates, now, pc, handled, accepted, ret, sent, last,
                   rejoined, codec, acceptedAt, storage, rpc, departed, known, batch>>

NextGrid ==
    \/ \E u \in UserIds, x \in GridCoords, y \in GridCoords : GridUpsert(u, x, y)
    \/ \E u \in UserIds : GridRemove(u)

SpecGrid == Init /\ [][NextGrid]_vars

----------------------------------------------------------------------------
(* Joins of users that are players already (a second connection of the same user) *)

RejoinUsers == {"u1", "u2"}

RejoinPayloads ==
    {<<OP_PLAYER_MOVE, JsonPosition(PB, DIR_RIGHT, TRUE, TRUE), FALSE>>,
     <<OP_PLAYER_INPUT, InputV3(DIR_LEFT, 1, 7), FALSE>>,
     <<OP_MAP_CHANGE, JsonMap("indoors"), TRUE>>}

RejoinMessages == {Message(u, pl[1], pl[2], pl[3]) : u \in RejoinUsers, pl \in RejoinPayloads}

NextRejoin ==
    \/ \E u \in RejoinUsers \ accepted : MatchJoinAttempt(u)
    \/ \E us \in PresenceLists(accepted) : MatchJoin(us)
    \/ \E us \in PresenceLists(DOMAIN players) : MatchLeave(us)
    \/ MatchLoopBegin
    \/ \E m \in RejoinMessages : MatchLoopMessage(m)
    \/ MatchLoopBroadcast

SpecRejoin == Init /\ [][NextRejoin]_vars

----------------------------------------------------------------------------
(* The decoders inside matchLoop: one sender, well-formed and malformed payloads *)

WireUsers == {"u1"}

\* 13 bytes of the legacy v1 layout: float32 100.0, float32 100.0, direction 1, running
V1At100 == Bin(<<0, 0, 200, 66, 0, 0, 200, 66, 1, 1, 0, 0, 0>>)
\* 10 bytes of the legacy v1 layout: float32 2.0, float32 2.0, direction 1, running
V1At2 == Bin(<<0, 0, 0, 64, 0, 0, 0, 64, 1, 1>>)

WirePayloads ==
    {<<OP_PLAYER_STATE, PositionV2(PA, DIR_UP, 1), FALSE>>,
     <<OP_PLAYER_STATE, PositionV2(PEdge, DIR_UP, 3), FALSE>>,
     <<OP_PLAYER_MOVE, V1At100, FALSE>>,
     <<OP_PLAYER_MOVE, V1At2, FALSE>>,
     <<OP_PLAYER_MOVE, Bin(<<2, 200, 0>>), FALSE>>,
     <<OP_PLAYER_MOVE, Bin(<<1, 2, 3>>), FALSE>>,
     <<OP_PLAYER_MOVE, Json([NoObj EXCEPT !.x = Some(100)]), FALSE>>,
     <<OP_PLAYER_MOVE, JsonPosition(PB, DIR_RIGHT, TRUE, FALSE), FALSE>>,
     <<OP_PLAYER_MOVE, JsonPosition(<<NotNumber, NotNumber>>, DIR_RIGHT, TRUE, FALSE), FALSE>>,
     <<OP_PLAYER_INPUT, InputV3(DIR_LEFT, 1, 5), FALSE>>,
     <<OP_PLAYER_INPUT, InputV3(DIR_RIGHT, 3, 3), FALSE>>,
     <<OP_PLAYER_INPUT, Bin(<<3, 1>>), FALSE>>,
     <<OP_PLAYER_INPUT, Bin(<<2, 1, 1, 1>>), FALSE>>,
     <<OP_MAP_CHANGE, JsonMap("indoors"), TRUE>>,
     <<OP_MAP_CHANGE, Json(NoObj), TRUE>>,
     <<OP_MAP_CHANGE, Bin(<<200>>), TRUE>>}

WireMessages == {Message("u1", pl[1], pl[2], pl[3]) : pl \in WirePayloads}

NextWire ==
    \/ \E u \in Candidates \cap WireUsers : MatchJoinAttempt(u)
    \/ \E us \in PresenceLists(accepted) : MatchJoin(us)
    \/ \E us \in PresenceLists(DOMAIN players) : MatchLeave(us)
    \/ MatchLoopBegin
    \/ \E m \in WireMessages : MatchLoopMessage(m)
    \/ MatchLoopBroadcast

SpecWire == Init /\ [][NextWire]_vars

----------------------------------------------------------------------------
(* The wire-format functions alone, on inputs drawn from bounded sets *)

\* a coordinate in quarter units: the fraction num / 4
Quarters(n) == [num |-> n, den |-> 4]

\* -32768, -1.5, -0.5, -0.25, 0, 0.25, 0.5, 1.5, 255.75, 256, 32767, 32767.25
CodecXs == {Quarters(n) : n \in {-131072, -6, -2, -1, 0, 1, 2, 6, 1023, 1024, 131068, 131069}}
CodecYs == {Quarters(n) : n \in {-131072, 1537, 131068}}
CodecSequences == {0, 1, 127, 128, 255}

\* Each behaviour of the codec specification is one call of one function.
EncodePosition(x, y, direction, isRunning, sequence, collided) ==
    /\ codec = NoCall
    /\ codec' = [fn |-> "encodeServerPosition",
                 input |-> [x |-> x, y |-> y, direction |-> direction,
                            isRunning |-> isRunning, sequence |-> sequence,
                            collided |-> collided],
                 output |-> encodeServerPosition(MathRound(x), MathRound(y), direction,
                                                 isRunning, sequence, collided)]
    /\ UNCHANGED <<players, aoiGrid, pendingUpdates, now, pc, handled, accepted, ret, sent,
                   last, rejoined, acceptedAt, storage, rpc, departed, known, batch>>

\* buffers of 0 to 5 bytes: every flags byte, version tags 2, 3 and 4
InputBuffers ==
    {<<3, d, f, q>> : d \in {DIR_LEFT, DIR_NONE}, f \in 0..255, q \in {0, 255}}
    \cup {<<v, DIR_UP, 1, 7>> : v \in {0, 2, 4, 255}}
    \cup {<<>>, <<3>>, <<3, 1>>, <<3, 1, 1>>, <<3, 1, 1, 9, 0>>, <<2, 1, 1, 9, 0>>}

DecodeInput(bytes) ==
    /\ codec = NoCall
    /\ codec' = [fn |-> "decodePlayerInput",
                 input |-> bytes,
                 output |-> decodePlayerInput(Bin(bytes))]
    /\ UNCHANGED <<players, aoiGrid, pendingUpdates, now, pc, handled, accepted, ret, sent,
                   last, rejoined, acceptedAt, storage, rpc, departed, known, batch>>

NextCodec ==
    \/ \E x \in CodecXs, y \in CodecYs, direction \in 0..7, isRunning \in BOOLEAN,
          sequence \in CodecSequences, collided \in BOOLEAN :
            EncodePosition(x, y, direction, isRunning, sequence, collided)
    \/ \E bytes \in InputBuffers : DecodeInput(bytes)

SpecCodec == Init /\ [][NextCodec]_vars

----------------------------------------------------------------------------
(* encodeServerPosition on values outside the ranges of its fields *)

\* -70000, -32769, -32768.5, 100, 32767.5, 32768, 40000, 65541
WideXs == {Quarters(n) : n \in {-280000, -131076, -131074, 400, 131070, 131072, 160000, 262164}}
\* -32769, 0, 32768
WideYs == {Quarters(n) : n \in {-131076, 0, 131072}}
WideDirections == {-1, 0, 7, 8, 9, 255}
WideSequences == {-1, 0, 255, 256, 300, 65535}

NextEncode ==
    \E x \in WideXs, y \in WideYs, direction \in WideDirections, isRunning \in BOOLEAN,
       sequence \in WideSequences, collided \in BOOLEAN :
        EncodePosition(x, y, direction, isRunning, sequence, collided)

SpecEncode == Init /\ [][NextEncode]_vars

----------------------------------------------------------------------------
(* Client-reported collisions: two senders, positions with and without the flag *)

CollideUsers == {"u1", "u2"}

CollidePayloads ==
    {<<OP_PLAYER_MOVE, JsonPosition(p, DIR_RIGHT, r, c), FALSE>> :
        p \in {PA, PB}, r \in BOOLEAN, c \in BOOLEAN}
    \cup {<<OP_PLAYER_INPUT, InputV3(DIR_LEFT, 1, 1), FALSE>>,
          <<OP_MAP_CHANGE, JsonMap("indoors"), TRUE>>}

CollideMessages ==
    {Message(u, pl[1], pl[2], pl[3]) : u \in CollideUsers, pl \in CollidePayloads}

NextCollide ==
    \/ \E u \in Candidates \cap CollideUsers : MatchJoinAttempt(u)
    \/ \E us \in PresenceLists(accepted) : MatchJoin(us)
    \/ \E us \in PresenceLists(DOMAIN players) : MatchLeave(us)
    \/ MatchLoopBegin
    \/ \E m \in CollideMessages : MatchLoopMessage(m)
    \/ MatchLoopBroadcast

SpecCollide == Init /\ [][NextCollide]_vars

----------------------------------------------------------------------------
(* The area of interest: two senders, positions at the far ends of the scanned block *)

AoiUsers == {"u1", "u2"}

\* PLow lies at the right edge of cell column 0.  PHigh is the first point of column 5,
\* 513 units from PLow; PRim is in column 5 too, 603 units from PLow; PFar is in column 7.
PLow == <<127, 384>>
PHigh == <<640, 384>>
PRim == <<730, 384>>
PFar == <<900, 384>>
AoiPoints == {PLow, PHigh, PRim, PFar}

AoiPayloads ==
    {<<OP_PLAYER_MOVE, JsonPosition(p, DIR_RIGHT, FALSE, FALSE), FALSE>> : p \in AoiPoints}
    \cup {<<OP_PLAYER_INPUT, InputV3(DIR_LEFT, 1, 1), FALSE>>,
          <<OP_MAP_CHANGE, JsonMap("indoors"), TRUE>>}

AoiMessages ==
    {Message(u, pl[1], pl[2], pl[3]) : u \in AoiUsers, pl \in AoiPayloads}

NextAoi ==
    \/ \E u \in Candidates \cap AoiUsers : MatchJoinAttempt(u)
    \/ \E us \in PresenceLists(accepted) : MatchJoin(us)
    \/ \E us \in PresenceLists(DOMAIN players) : MatchLeave(us)
    \/ MatchLoopBegin
    \/ \E m \in AoiMessages : MatchLoopMessage(m)
    \/ MatchLoopBroadcast

SpecAoi == Init /\ [][NextAoi]_vars

----------------------------------------------------------------------------
(* Whole ticks: matchLoop is invoked with a batch of messages of two senders *)

BatchUsers == {"u1", "u2"}

\* the longest batch of one matchLoop invocation
MaxBatch == 3

\* a running position with the collision flag, a stop, a position that is no number,
\* an input and a map change
BatchPayloads ==
    {<<OP_PLAYER_MOVE, JsonPosition(PB, DIR_RIGHT, TRUE, TRUE), FALSE>>,
     <<OP_PLAYER_MOVE, JsonPosition(PA, DIR_RIGHT, FALSE, FALSE), FALSE>>,
     <<OP_PLAYER_MOVE, JsonPosition(<<NotNumber, NotNumber>>, DIR_RIGHT, TRUE, FALSE), FALSE>>,
     <<OP_PLAYER_INPUT, InputV3(DIR_LEFT, 1, 1), FALSE>>,
     <<OP_MAP_CHANGE, JsonMap("indoors"), TRUE>>}

\* u1 sends every payload; u2 the two well-formed positions and the map change
BatchMessages ==
    {Message("u1", pl[1], pl[2], pl[3]) : pl \in BatchPayloads}
    \cup {Message("u2", pl[1], pl[2], pl[3]) :
              pl \in {q \in BatchPayloads :
                         \/ q[1] = OP_MAP_CHANGE
                         \/ q[1] = OP_PLAYER_MOVE /\ q[2] # JsonPosition(<<NotNumber, NotNumber>>, DIR_RIGHT, TRUE, FALSE)}}

Batches(n) == UNION {[1..k -> BatchMessages] : k \in 0..n}

\* the history of accepted positions over a whole batch
RECURSIVE AcceptedAfter(_, _, _, _)
AcceptedAfter(st, msgs, t, acc) ==
    IF msgs = <<>> \/ st.threw THEN acc
    ELSE AcceptedAfter(ProcessMessage(st, Head(msgs), t), Tail(msgs), t,
                       IF PositionStored(st, Head(msgs), t)
                       THEN ObjPut(acc, Head(msgs).sender, t) ELSE acc)

\* one invocation of matchLoop with the batch msgs, lines 800-1121
MatchLoopBatch(msgs) ==
    /\ pc = "idle"
    /\ handled + Len(msgs) <= MaxMessages
    /\ handled' = handled + Len(msgs)
    /\ LET st == matchLoop([State EXCEPT !.sent = <<>>], msgs, now)
       IN  /\ Becomes(st)
           /\ pc' = IF st.threw THEN "error" ELSE "idle"
    /\ batch' = msgs
    /\ ret' = NoRet
    /\ last' = <<>>
    /\ rejoined' = <<>>
    /\ departed' = {}
    /\ acceptedAt' = AcceptedAfter(State, msgs, now, acceptedAt)
    /\ UNCHANGED <<now, accepted, codec, storage, rpc, known>>

NextBatch ==
    \/ \E u \in Candidates \cap BatchUsers : MatchJoinAttempt(u)
    \/ \E us \in PresenceLists(accepted) : MatchJoin(us)
    \/ \E us \in PresenceLists(DOMAIN players) : MatchLeave(us)
    \/ \E msgs \in Batches(IF MaxMessages - handled < MaxBatch
                              THEN MaxMessages - handled ELSE MaxBatch) :
            MatchLoopBatch(msgs)

SpecBatch == Init /\ [][NextBatch]_vars

----------------------------------------------------------------------------
(* The RPC functions: session discovery and the support conversations *)

\* line 292
MAX_PLAYERS == 50

\* the outcome of an RPC: an exception or a returned value, the host calls made in order,
\* and the host's storage afterwards
Thrown(calls, store) == [threw |-> TRUE, value |-> Undefined, calls |-> calls, store |-> store]
Returned(value, calls, store) ==
    [threw |-> FALSE, value |-> Some(value), calls |-> calls, store |-> store]

HasFreePlace_AtCapacity(match) == match.size <= MAX_PLAYERS

\* line 302: match.size < MAX_PLAYERS
HasFreePlace(match) == match.size < MAX_PLAYERS

\* lines 301-302: the index of the first listed match with a free place, 0 when there
\* is none
RECURSIVE FirstAvailable(_, _)
FirstAvailable(matches, i) ==
    IF i > Len(matches) THEN 0
    ELSE IF HasFreePlace(matches[i]) THEN i
    ELSE FirstAvailable(matches, i + 1)

\* lines 284-338.  matches: what nk.matchList answers for the label; newMatchId: what
\* nk.matchCreate answers; listThrows, createThrows: the host call raises an error
rpcGetWaitingMatch(matches, newMatchId, listThrows, createThrows, store) ==
    IF listThrows THEN Thrown(<<"matchList">>, store)
    ELSE LET i == FirstAvailable(matches, 1)
         IN  IF i # 0
             THEN Returned([matchId |-> matches[i].matchId,
                            playerCount |-> matches[i].size,
                            isNew |-> FALSE],
                           <<"matchList">>, store)
             ELSE IF createThrows THEN Thrown(<<"matchList", "matchCreate">>, store)
             ELSE Returned([matchId |-> newMatchId, playerCount |-> 0, isNew |-> TRUE],
                           <<"matchList", "matchCreate">>, store)

\* A string is a sequence of one-character strings where the code looks into it.
IsWhitespace(ch) == ch \in {" ", "\t", "\n"}

RECURSIVE TrimStart(_)
TrimStart(str) ==
    IF str # <<>> /\ IsWhitespace(Head(str)) THEN TrimStart(Tail(str)) ELSE str

RECURSIVE TrimEnd(_)
TrimEnd(str) ==
    IF str # <<>> /\ IsWhitespace(str[Len(str)])
    THEN TrimEnd(SubSeq(str, 1, Len(str) - 1))
    ELSE str

\* String.prototype.trim
Trim(str) == TrimEnd(TrimStart(str))

\* the host's storage engine: one object per collection, key and owning user
StorageRead(store, collection, key, userId) ==
    {o \in store : o.collection = collection /\ o.key = key /\ o.userId = userId}

StorageWrite(store, collection, key, userId, value) ==
    (store \ StorageRead(store, collection, key, userId))
        \cup {[collection |-> collection, key |-> key, userId |-> userId, value |-> value]}

\* lines 423-436
NewConversation(channelId, userId, userName, t) ==
    [conversationId |-> channelId, userId |-> userId, userName |-> userName,
     status |-> "active", createdAt |-> t, updatedAt |-> t, lastMessageAt |-> t,
     unreadCount |-> [user |-> 0, admin |-> 0]]

\* lines 371-460.  payload.json: the payload is the JSON text of an object
rpcCreateSupportConversation(ctxUserId, payload, t, store) ==
    IF ~payload.json THEN Thrown(<<>>, store)
    ELSE LET userId == payload.userId
             userName == payload.userName
         IN  IF userId = Undefined \/ userId \in {Some(""), Some("undefined"), Some("null")}
             THEN Thrown(<<>>, store)
             ELSE IF userName = Undefined \/ userName = Some(<<>>) \/ Trim(userName[1]) = <<>>
             THEN Thrown(<<>>, store)
             ELSE LET channelId == "support_chat_" \o userId[1]
                      objects == StorageRead(store, "conversations", channelId, ctxUserId)
                  IN  IF objects # {}
                      THEN Returned([channelId |-> channelId, exists |-> TRUE],
                                    <<"storageRead">>, store)
                      ELSE Returned([channelId |-> channelId, exists |-> FALSE],
                                    <<"storageRead", "storageWrite">>,
                                    StorageWrite(store, "conversations", channelId, ctxUserId,
                                                 NewConversation(channelId, userId[1],
                                                                 userName[1], t)))

\* matches listed per call of get_waiting_match
MaxListed == 3

\* occupant counts of a listed match: empty, one place left, full
ListedSizes == {0, MAX_PLAYERS - 1, MAX_PLAYERS}

ListedMatches ==
    {[i \in 1..Len(sizes) |-> [matchId |-> <<"match", i>>, size |-> sizes[i]]] :
        sizes \in SeqsUpTo(ListedSizes, MaxListed)}

NewMatchId == <<"match", 0>>

\* the Nakama users that call RPCs
Callers == {"n1", "n2"}

RequestUserIds == {Undefined, Some(""), Some("undefined"), Some("null"), Some("c1"), Some("c2")}
RequestUserNames == {Undefined, Some(<<>>), Some(<<" ", "\t">>), Some(<<" ", "A", "n">>)}

RpcPayloads ==
    {[json |-> TRUE, userId |-> userId, userName |-> userName] :
        userId \in RequestUserIds, userName \in RequestUserNames}
    \cup {[json |-> FALSE, userId |-> Undefined, userName |-> Undefined]}

\* One RPC runs to its end: its outcome is recorded and its writes reach the storage.
RpcDone(fn, ctxUserId, input, output) ==
    /\ pc = "idle"
    /\ rpc' = [fn |-> fn, ctx |-> ctxUserId, input |-> input,
               output |-> [threw |-> output.threw, value |-> output.value,
                           calls |-> output.calls],
               before |-> storage]
    /\ storage' = output.store
    /\ UNCHANGED <<players, aoiGrid, pendingUpdates, now, pc, handled, accepted, ret, sent,
                   last, rejoined, codec, acceptedAt, departed, known, batch>>

GetWaitingMatch(ctxUserId, matches, listThrows, createThrows) ==
    RpcDone("get_waiting_match", ctxUserId,
            [matches |-> matches, listThrows |-> listThrows, createThrows |-> createThrows],
            rpcGetWaitingMatch(matches, NewMatchId, listThrows, createThrows, storage))

CreateSupportConversation(ctxUserId, payload) ==
    RpcDone("create_support_conversation", ctxUserId, payload,
            rpcCreateSupportConversation(ctxUserId, payload, now, storage))

NextRpc ==
    \/ \E matches \in ListedMatches, listThrows \in BOOLEAN, createThrows \in BOOLEAN :
            GetWaitingMatch("n1", matches, listThrows, createThrows)
    \/ \E ctxUserId \in Callers, payload \in RpcPayloads :
            CreateSupportConversation(ctxUserId, payload)

SpecRpc == Init /\ [][NextRpc]_vars

----------------------------------------------------------------------------


\* the position frames (opcode 5) the last handler invocation dispatched
PositionFrames == {sent[i] : i \in {j \in 1..Len(sent) : sent[j].opCode = OP_SERVER_POSITION}}

FrameSender(f) == f.sender[1].userId

\* x and y carried by a v4 frame
FramePosition(f) == <<GetInt16LE(f.data[2], f.data[3]), GetInt16LE(f.data[4], f.data[5])>>

\* the last handled message came from a player of the session
LastFromPlayer == last # <<>> /\ last[1].before # Undefined

\* the last handled message was a legacy position message that decoded to a position
LastIsPosition ==
    /\ LastFromPlayer
    /\ last[1].m.opCode \in {OP_PLAYER_MOVE, OP_PLAYER_STATE}
    /\ DecodeLegacy(last[1].m.data) # Undefined
    /\ DecodeLegacy(last[1].m.data)[1].x # Undefined
    /\ DecodeLegacy(last[1].m.data)[1].y # Undefined

\* the last handled message was an authoritative input that decoded
LastIsInput ==
    /\ LastFromPlayer
    /\ last[1].m.opCode = OP_PLAYER_INPUT
    /\ decodePlayerInput(last[1].m.data) # Undefined

LastSender == last[1].m.sender
LastBefore == last[1].before[1]
LastParsed == DecodeLegacy(last[1].m.data)[1]
LastClaimed == <<LastParsed.x[1], LastParsed.y[1]>>
LastDistSq == DistSq(LastClaimed, LastBefore.lastPosition)

\* C1: after any sequence of aoiUpdatePlayer and aoiRemovePlayer calls, a player id
\* is a member of cell C's set if and only if the reverse index maps it to C's key.
C1_GridConsistency ==
    \A u \in UserIds :
        \A c \in DOMAIN aoiGrid.cells \cup {aoiGrid.playerCells[v] : v \in DOMAIN aoiGrid.playerCells} :
            (c \in DOMAIN aoiGrid.cells /\ u \in aoiGrid.cells[c])
                <=> (u \in DOMAIN aoiGrid.playerCells /\ aoiGrid.playerCells[u] = c)

\* two players share a cell that is not the first cell, a third sits elsewhere
C1_Witness ==
    /\ DOMAIN aoiGrid.playerCells = UserIds
    /\ aoiGrid.playerCells["u1"] = <<2, 1>>
    /\ aoiGrid.playerCells["u2"] = <<2, 1>>
    /\ aoiGrid.playerCells["u3"] = <<-1, 0>>

\* C2: in every reachable session state each player's grid cell is the cell of the
\* player's stored last position (floor division by the cell size, 200).
C2_CellMatchesPosition ==
    \A u \in DOMAIN players :
        /\ u \in DOMAIN aoiGrid.playerCells
        /\ aoiGrid.playerCells[u] =
             aoiGetCellKey(players[u].lastPosition[1], players[u].lastPosition[2])

\* a player has moved from the spawn cell to another cell and the tick has returned
C2_Witness ==
    /\ pc = "idle"
    /\ LastIsPosition
    /\ LastSender \in DOMAIN players
    /\ players[LastSender].lastPosition = PG
    /\ aoiGrid.playerCells[LastSender] = <<5, 2>>

\* C3: with join invoked only for candidates whose joinAttempt was accepted, the
\* number of players in the session never exceeds maxPlayers.
C3_CapacityRespected == Cardinality(DOMAIN players) <= MaxPlayers

\* C4 (as stated): a rejected joinAttempt carries the reason 'match is full'.
C4_ReasonLowerCase ==
    ret.rejectMessage # Undefined => ret.rejectMessage = Some("match is full")

\* C4 (amended): joinAttempt on a session with at least maxPlayers players returns
\* accept = false with the reason 'Match is full' as a value; with fewer players it
\* returns accept = true; in both cases players, grid and pending updates are as before.
C4_JoinAttempt ==
    /\ [](ret # NoRet =>
            IF Cardinality(DOMAIN players) >= MaxPlayers
            THEN ret = [accept |-> FALSE, rejectMessage |-> Some("Match is full")]
            ELSE ret = [accept |-> TRUE, rejectMessage |-> Undefined])
    /\ [][ret' # NoRet => UNCHANGED <<players, aoiGrid, pendingUpdates>>]_vars

\* a third candidate was rejected by a full session
C4_Witness ==
    /\ Cardinality(DOMAIN players) = MaxPlayers
    /\ ret = [accept |-> FALSE, rejectMessage |-> Some("Match is full")]

\* C5: no position update of a sender is dispatched to a player whose current sub-map
\* differs from the sender's at dispatch time, coincident coordinates included.
C5_MapIsolation ==
    \A f \in PositionFrames :
        \A r \in f.to :
            players[r].currentMap = players[FrameSender(f)].currentMap

\* two players stand on the same coordinates on different sub-maps, the one whose
\* position message closed the batch had a pending update, and nothing was dispatched
C5_Witness ==
    /\ pc = "idle"
    /\ LastIsPosition
    /\ sent = <<>>
    /\ \E a, b \in DOMAIN players :
          /\ a = LastSender
          /\ b # a
          /\ players[a].lastPosition = PA
          /\ players[b].lastPosition = PA
          /\ players[a].currentMap # players[b].currentMap

CellDistance(p, q) ==
    LET a == aoiGetCellKey(p[1], p[2])
        b == aoiGetCellKey(q[1], q[2])
        abs(n) == IF n < 0 THEN -n ELSE n
    IN  IF abs(a[1] - b[1]) >= abs(a[2] - b[2]) THEN abs(a[1] - b[1]) ELSE abs(a[2] - b[2])

C7_OneUpdatePerPlayer ==
    /\ [](\A i, j \in 1..Len(pendingUpdates) :
              i # j => pendingUpdates[i][1] # pendingUpdates[j][1])
    /\ []((pc = "loop" /\ (LastIsPosition \/ LastIsInput)) =>
              Cardinality({i \in 1..Len(pendingUpdates) : pendingUpdates[i][1] = LastSender}) = 1)
    /\ [][(pc = "loop" /\ pc' = "loop") =>
              PairKeys(pendingUpdates) \subseteq PairKeys(pendingUpdates')]_vars
    /\ [](\A f \in PositionFrames :
              LET p == players[FrameSender(f)]
              IN  /\ Len(f.data) = 9
                  /\ FramePosition(f) = p.lastPosition
                  /\ f.data[6] = p.direction % 8
                  /\ f.data[7] % 2 = (IF p.isRunning THEN 1 ELSE 0)
                  /\ f.data[8] = p.lastInputSequence % 256)

\* a sender that already had a pending update sent another movement message in the
\* same tick, and one frame was dispatched for it
C7_Witness ==
    /\ pc = "idle"
    /\ LastIsPosition \/ LastIsInput
    /\ last[1].hadUpdate
    /\ Cardinality({i \in 1..Len(sent) : sent[i].opCode = OP_SERVER_POSITION
                                          /\ FrameSender(sent[i]) = LastSender}) = 1

\* C8: when a tick invocation returns the pending-update map is empty, whether or not
\* anything was dispatched, so no pending update survives into a later tick.
C8_UpdatesCleared == pc = "idle" => pendingUpdates = <<>>

\* a tick whose last message created a pending update returned without dispatching
C8_Witness ==
    /\ pc = "idle"
    /\ LastIsPosition
    /\ sent = <<>>
    /\ pendingUpdates = <<>>

\* C9: for a player with the first-position flag set, a stored position with
\* non-negative coordinates and a last input time at most 5 s old, a legacy position
\* update with running = true is accepted at distance maxAllowed (96) and at
\* maxAllowed - 1, and rejected (stored position unchanged) at maxAllowed + 1.
C9_EnvelopeBoundary ==
    (/\ LastIsPosition
     /\ LastSender \in DOMAIN players
     /\ LastParsed.r = Some(TRUE)
     /\ LastBefore.hasReceivedFirstPosition
     /\ LastBefore.lastPosition[1] >= 0
     /\ LastBefore.lastPosition[2] >= 0
     /\ last[1].t - LastBefore.lastInputTime <= STALE_MS)
    => /\ maxAllowed = 96
       /\ LastDistSq = maxAllowed * maxAllowed
             => players[LastSender].lastPosition = LastClaimed
       /\ LastDistSq = (maxAllowed - 1) * (maxAllowed - 1)
             => players[LastSender].lastPosition = LastClaimed
       /\ LastDistSq = (maxAllowed + 1) * (maxAllowed + 1)
             => players[LastSender].lastPosition = LastBefore.lastPosition

\* a running update exactly maxAllowed away from a fresh, flagged position was accepted
C9_Witness ==
    /\ LastIsPosition
    /\ LastSender \in DOMAIN players
    /\ LastParsed.r = Some(TRUE)
    /\ LastBefore.hasReceivedFirstPosition
    /\ LastBefore.lastPosition = PA
    /\ last[1].t - LastBefore.lastInputTime <= STALE_MS
    /\ LastClaimed = PEdge
    /\ LastDistSq = maxAllowed * maxAllowed
    /\ players[LastSender].lastPosition = PEdge

\* C10: for a player with the first-position flag set, a legacy update with
\* running = false farther away than the allowed envelope makes the stored position and
\* the grid cell the claimed ones and leaves a pending update; when it closes the batch,
\* a frame carrying that position goes in the same tick to the same-map players of the
\* sender's cell block, which include every same-map player within 600 units.
C10_StopTrust ==
    (/\ LastIsPosition
     /\ LastSender \in DOMAIN players
     /\ LastParsed.r = Some(FALSE)
     /\ LastBefore.hasReceivedFirstPosition
     /\ LastDistSq > maxAllowed * maxAllowed)
    => /\ players[LastSender].lastPosition = LastClaimed
       /\ aoiGrid.playerCells[LastSender] = aoiGetCellKey(LastClaimed[1], LastClaimed[2])
       /\ pc = "loop" => LastSender \in PairKeys(pendingUpdates)
       /\ (pc = "idle" /\ Recipients(State, LastSender) # {}) =>
             \E f \in PositionFrames :
                 /\ FrameSender(f) = LastSender
                 /\ FramePosition(f) = LastClaimed
                 /\ f.to = Recipients(State, LastSender)
                 /\ \A r \in DOMAIN players \ {LastSender} :
                       (/\ players[r].currentMap = players[LastSender].currentMap
                        /\ DistSq(players[r].lastPosition, LastClaimed)
                              <= AOI_RADIUS * AOI_RADIUS)
                       => r \in f.to

\* the player at (100,100) stopped at (500,500) and the frame went to a recipient
C10_Witness ==
    /\ pc = "idle"
    /\ LastIsPosition
    /\ LastParsed.r = Some(FALSE)
    /\ LastBefore.hasReceivedFirstPosition
    /\ LastBefore.lastPosition = PA
    /\ LastClaimed = PB
    /\ \E f \in PositionFrames :
          /\ FrameSender(f) = LastSender
          /\ FramePosition(f) = PB
          /\ f.to # {}

\* the integer n is a nearest integer of the fraction q
Nearest(n, q) ==
    LET d == q.den * n - q.num
    IN  2 * (IF d < 0 THEN -d ELSE d) <= q.den

\* C11: for x, y in the signed 16-bit range, direction in 0..7, running and collided in
\* {false, true} and sequence in 0..255, the frame of encodeServerPosition read by its
\* layout (version 4, little-endian int16 x at 1 and y at 3, direction at 5, flags at 6
\* with bit 0 = running and bit 1 = collided, sequence at 7, reserved 0 at 8) gives back
\* the encoded values, x and y rounded to a nearest integer.
C11_FrameRoundTrip ==
    codec.fn = "encodeServerPosition" =>
        LET f == codec.output
            v == codec.input
        IN  /\ Len(f) = 9
            /\ f[1] = 4
            /\ Nearest(GetInt16LE(f[2], f[3]), v.x)
            /\ Nearest(GetInt16LE(f[4], f[5]), v.y)
            /\ f[6] = v.direction
            /\ f[7] \in 0..3
            /\ (f[7] % 2 = 1) = v.isRunning
            /\ (f[7] \div 2 = 1) = v.collided
            /\ f[8] = v.sequence
            /\ f[9] = 0

\* x = -1.5, y = 32767, direction 7, running, collided, sequence 255
C11_Witness ==
    /\ codec.fn = "encodeServerPosition"
    /\ codec.input = [x |-> Quarters(-6), y |-> Quarters(131068), direction |-> 7,
                      isRunning |-> TRUE, sequence |-> 255, collided |-> TRUE]
    /\ codec.output = <<4, 255, 255, 255, 127, 7, 3, 255, 0>>

\* C19: decodePlayerInput returns no result exactly when the buffer is shorter than 4
\* bytes or its first byte is not 3; otherwise direction = byte 1, running = bit 0 of
\* the flags byte (byte 2) for every flags value 0..255, and sequence = byte 3.
C19_DecodeInput ==
    codec.fn = "decodePlayerInput" =>
        LET b == codec.input
            r == codec.output
        IN  /\ (r = Undefined) <=> (Len(b) < 4 \/ b[1] # 3)
            /\ r # Undefined =>
                  /\ r[1].direction = b[2]
                  /\ r[1].isRunning = (b[3] % 2 = 1)
                  /\ r[1].sequence = b[4]

\* the last handled message was a legacy position message (opcode 1 or 2) of a player
LastIsLegacy ==
    /\ LastFromPlayer
    /\ last[1].m.opCode \in {OP_PLAYER_MOVE, OP_PLAYER_STATE}

\* the last handled message went through validation: both of its branches stamp the
\* input time and leave a pending update of the sender
LastValidated ==
    /\ LastSender \in DOMAIN players
    /\ players[LastSender].lastInputTime = last[1].t
    /\ pc = "loop" => LastSender \in PairKeys(pendingUpdates)

\* C12: a binary legacy payload of at least 7 bytes with leading byte 2 is decoded as v2
\* (int16 x/y at offsets 1/3, direction at 5, flags at 6), any other binary payload of
\* at least 10 bytes as v1 (float32 x/y at offsets 0/4, direction at 8, running at 9),
\* and the decoded position goes through validation.
C12_LegacyPrecedence ==
    (LastIsLegacy /\ last[1].m.data.kind = "bin" /\ pc # "error") =>
        LET b == last[1].m.data.bytes
            decoded == DecodeLegacy(last[1].m.data)
        IN  /\ (Len(b) >= 7 /\ b[1] = 2) =>
                  /\ decoded # Undefined
                  /\ decoded[1].x = Some(GetInt16LE(b[2], b[3]))
                  /\ decoded[1].y = Some(GetInt16LE(b[4], b[5]))
                  /\ decoded[1].d = Some(b[6])
                  /\ decoded[1].r = Some(b[7] % 2 = 1)
                  /\ LastValidated
            /\ (Len(b) >= 10 /\ b[1] # 2) =>
                  /\ decoded # Undefined
                  /\ decoded[1].x = Some(GetFloat32LE(b[1], b[2], b[3], b[4]))
                  /\ decoded[1].y = Some(GetFloat32LE(b[5], b[6], b[7], b[8]))
                  /\ decoded[1].d = Some(b[9])
                  /\ decoded[1].r = Some(b[10] = 1)
                  /\ LastValidated

\* the payload of message m fails to decode: an authoritative input shorter than 4
\* bytes or with a version tag other than 3; a legacy payload that is neither JSON with
\* x and y, nor v2, nor at least 10 bytes long; a map change that is no JSON or has no
\* d.map
FailsToDecode(m) ==
    LET b == m.data.bytes
        json == m.data.kind = "json"
    IN  \/ /\ m.opCode = OP_PLAYER_INPUT
           /\ json \/ Len(b) < 4 \/ b[1] # 3
        \/ /\ m.opCode \in {OP_PLAYER_MOVE, OP_PLAYER_STATE}
           /\ IF json
              THEN m.data.obj.x = Undefined \/ m.data.obj.y = Undefined
              ELSE ~(Len(b) >= 7 /\ b[1] = 2) /\ Len(b) < 10
        \/ /\ m.opCode = OP_MAP_CHANGE
           /\ ~json \/ m.data.obj.map = Undefined

\* C13: a message of a player whose payload fails to decode is dropped: the players,
\* the grid, the pending updates and the dispatched messages are what they were before
\* it, and matchLoop goes on to the next message (no error is raised).
C13_DecodeFailureDropped ==
    [][(/\ pc = "loop"
        /\ handled' = handled + 1
        /\ last'[1].before # Undefined
        /\ FailsToDecode(last'[1].m))
       => (UNCHANGED <<players, aoiGrid, pendingUpdates, sent>> /\ pc' = "loop")]_vars

\* a payload that fails to decode was handled after a message of the same tick that
\* had left a pending update: the update and the player are still as they were
C13_Witness ==
    /\ pc = "loop"
    /\ LastFromPlayer
    /\ FailsToDecode(last[1].m)
    /\ last[1].hadUpdate
    /\ LastSender \in PairKeys(pendingUpdates)
    /\ players[LastSender] = LastBefore
    /\ LastBefore.hasReceivedFirstPosition

\* C14: a tick invocation never raises an error, whatever the messages of the batch
\* and of the ticks before it: matchLoop returns a session state.
C14_TickReturns == pc # "error"

\* C15: a player's stored input sequence number never decreases: after a message of
\* the player is handled it is at least what it was before the message.
C15_SequenceMonotonic ==
    (LastFromPlayer /\ LastSender \in DOMAIN players) =>
        players[LastSender].lastInputSequence >= LastBefore.lastInputSequence

\* the users the last handler invocation welcomed: the presences of a matchJoin
Welcomed == UNION {sent[i].to : i \in {j \in 1..Len(sent) : sent[j].opCode = OP_WELCOME}}

\* C16: join inserts the candidate's player state at the spawn coordinate (96, 384) with
\* direction none, not running, first-position flag and collision flag false, and
\* registers the player in the grid in the cell of the spawn coordinate and in no other
\* cell, also when the candidate's id was a player already.
C16_JoinAtSpawn ==
    \A u \in Welcomed :
        /\ u \in DOMAIN players
        /\ players[u].userId = u
        /\ players[u].lastPosition = <<96, 384>>
        /\ players[u].direction = DIR_NONE
        /\ players[u].isRunning = FALSE
        /\ players[u].hasReceivedFirstPosition = FALSE
        /\ players[u].collided = FALSE
        /\ u \in DOMAIN aoiGrid.playerCells
        /\ aoiGrid.playerCells[u] = <<0, 1>>
        /\ \A c \in DOMAIN aoiGrid.cells : u \in aoiGrid.cells[c] <=> c = <<0, 1>>

\* the joined id was a player that stood at (500,500), running, collided, on another map
C16_Witness ==
    \E u \in Welcomed \cap DOMAIN rejoined :
        /\ rejoined[u].lastPosition = PB
        /\ rejoined[u].isRunning
        /\ rejoined[u].hasReceivedFirstPosition
        /\ rejoined[u].currentMap = "indoors"
        /\ players[u].lastPosition = <<96, 384>>
        /\ players[u].currentMap = "outdoors"

\* C17: for each joining candidate, join emits two effects in this order: a reliable
\* welcome on opcode 1 that goes to the joiner only and whose roster holds every player
\* of the session at that moment, and a reliable player-joined notification on opcode 20
\* that goes to every other occupant and not to the joiner.
C17_JoinEffects ==
    (sent # <<>> /\ sent[1].opCode = OP_WELCOME) =>
        /\ Len(sent) % 2 = 0
        /\ \A k \in 1..(Len(sent) \div 2) :
              LET welcome == sent[2 * k - 1]
                  joined == sent[2 * k]
              IN  \E u \in DOMAIN players :
                      /\ welcome.opCode = 1
                      /\ welcome.reliable
                      /\ Delivered(welcome) = {u}
                      /\ u \in DOMAIN welcome.data.players
                      /\ DOMAIN welcome.data.players \subseteq DOMAIN players
                      /\ 2 * k = Len(sent) => DOMAIN welcome.data.players = DOMAIN players
                      /\ joined.opCode = 20
                      /\ joined.reliable
                      /\ joined.data.player.userId = u
                      /\ u \notin Delivered(joined)
                      /\ DOMAIN players \ {u} \subseteq Delivered(joined)

\* the last handler invocation was a matchLeave, in the state s of its dispatched messages
LeftIn(s) == s # <<>> /\ s[1].opCode = OP_PLAYER_LEFT

\* C18: leave removes the player from both indexes of the grid, leaves no pending
\* update of the player, deletes the player state and broadcasts one player-left
\* notification (opcode 3, carrying only the userId) to all remaining occupants; the
\* state and the grid cell of every other player are unchanged.
C18_Leave ==
    /\ [](LeftIn(sent) =>
            \A i \in 1..Len(sent) :
                LET u == sent[i].data.userId
                IN  /\ sent[i].opCode = 3
                    /\ sent[i].data = [type |-> "player_left", userId |-> u]
                    /\ sent[i].reliable
                    /\ Delivered(sent[i]) = DOMAIN players
                    /\ u \notin DOMAIN players
                    /\ u \notin DOMAIN aoiGrid.playerCells
                    /\ \A c \in DOMAIN aoiGrid.cells : u \notin aoiGrid.cells[c]
                    /\ u \notin PairKeys(pendingUpdates)
                    /\ \A j \in 1..Len(sent) : sent[j].data.userId = u => j = i)
    /\ [][(pc = "idle" /\ LeftIn(sent')) =>
            LET gone == {sent'[i].data.userId : i \in 1..Len(sent')}
            IN  /\ DOMAIN players' = DOMAIN players \ gone
                /\ \A v \in DOMAIN players' :
                      /\ players'[v] = players[v]
                      /\ aoiGrid'.playerCells[v] = aoiGrid.playerCells[v]]_vars

\* a player left a session in which a player that has moved stays behind
C18_Witness ==
    /\ LeftIn(sent)
    /\ Len(sent) = 1
    /\ \E v \in DOMAIN players :
          /\ players[v].lastPosition = PB
          /\ aoiGrid.playerCells[v] = <<2, 2>>
          /\ aoiGrid.cells[<<2, 2>>] = {v}

----------------------------------------------------------------------------
(* Session discovery and the support conversations *)

RpcIs(fn) == rpc.fn = fn

\* the indices of the listed matches with fewer than 50 occupants
SpareCapacity(matches) == {i \in 1..Len(matches) : matches[i].size < 50}

ValidRequest(payload) ==
    /\ payload.json
    /\ payload.userId \notin {Undefined, Some(""), Some("undefined"), Some("null")}
    /\ payload.userName # Undefined
    /\ \E i \in 1..Len(payload.userName[1]) : payload.userName[1][i] \notin {" ", "\t", "\n"}

\* the conversations stored under the key of the payload's userId, whoever owns them
StoredFor(store, payload) ==
    {o \in store : o.collection = "conversations"
                   /\ o.key = "support_chat_" \o payload.userId[1]}

\* C22: create_support_conversation is create-or-fetch.  The first call for a userId
\* writes one conversation under the key support_chat_<userId> and returns exists =
\* false; every later call with the same userId returns the same channelId with exists =
\* true and writes nothing; an invalid userId or an empty userName raises an error and
\* writes nothing.
C22_CreateOrFetch ==
    RpcIs("create_support_conversation") =>
        LET payload == rpc.input
            out == rpc.output
        IN  /\ ~ValidRequest(payload) => out.threw /\ storage = rpc.before
            /\ (ValidRequest(payload) /\ StoredFor(rpc.before, payload) = {}) =>
                   /\ out.value = Some([channelId |-> "support_chat_" \o payload.userId[1],
                                        exists |-> FALSE])
                   /\ Cardinality(StoredFor(storage, payload)) = 1
                   /\ rpc.before \subseteq storage
                   /\ Cardinality(storage) = Cardinality(rpc.before) + 1
            /\ (ValidRequest(payload) /\ StoredFor(rpc.before, payload) # {}) =>
                   /\ out.value = Some([channelId |-> "support_chat_" \o payload.userId[1],
                                        exists |-> TRUE])
                   /\ storage = rpc.before

----------------------------------------------------------------------------
(* The first-position flag, the stale window and the collision flag *)

\* the handler is about to take, or has just taken, one message of the batch
TakesMessage == pc = "loop" /\ handled' = handled + 1

\* C23 (as stated): when more than 5 s have passed since the sender's last position
\* update whose position was stored, the next decodable legacy position update is
\* accepted (stored, flag true) whatever its distance; rejected updates and
\* authoritative inputs in between do not restart the 5 s.
C23_StaleSinceAccepted ==
    [][(/\ TakesMessage
        /\ LastIsPosition'
        /\ LastSender' \in DOMAIN acceptedAt
        /\ now - acceptedAt[LastSender'] > STALE_MS)
       => /\ players'[LastSender'].lastPosition = LastClaimed'
          /\ players'[LastSender'].hasReceivedFirstPosition]_vars

\* C23 (amended): when more than 5 s have passed since the sender's last-input time (the
\* time of its join or of its last decoded movement message: authoritative input, or
\* legacy position update whether accepted or rejected), the next decodable legacy
\* position update is accepted whatever its distance: stored position and grid cell
\* become the claimed ones and the flag ends true.
C23_StaleSinceInput ==
    (/\ pc = "loop"
     /\ LastIsPosition
     /\ last[1].t - LastBefore.lastInputTime > STALE_MS)
    => /\ players[LastSender].lastPosition = LastClaimed
       /\ aoiGrid.playerCells[LastSender] = aoiGetCellKey(LastClaimed[1], LastClaimed[2])
       /\ players[LastSender].hasReceivedFirstPosition
       /\ players[LastSender].lastInputTime = last[1].t

\* a flagged player at (100,100), silent for 5001 ms, claimed a running move of 97
\* units, one more than the envelope, and the claim was stored
C23_Witness ==
    /\ pc = "loop"
    /\ LastIsPosition
    /\ last[1].t - LastBefore.lastInputTime = STALE_MS + 1
    /\ LastBefore.hasReceivedFirstPosition
    /\ LastBefore.lastPosition = PA
    /\ LastParsed.r = Some(TRUE)
    /\ LastClaimed = PBeyond
    /\ players[LastSender].lastPosition = PBeyond

\* C24: a decodable legacy position update whose distance from the stored position
\* exceeds 1000, or that finds a stored position with a negative x or y, is accepted
\* whatever the flag was: stored position and grid cell become the claimed ones and the
\* flag ends true.
C24_ExtremeOrInvalid ==
    (/\ pc = "loop"
     /\ LastIsPosition
     /\ \/ LastDistSq > EXTREME_DISTANCE * EXTREME_DISTANCE
        \/ LastBefore.lastPosition[1] < 0
        \/ LastBefore.lastPosition[2] < 0)
    => /\ players[LastSender].lastPosition = LastClaimed
       /\ aoiGrid.playerCells[LastSender] = aoiGetCellKey(LastClaimed[1], LastClaimed[2])
       /\ players[LastSender].hasReceivedFirstPosition

\* a flagged player at (100,100) with a fresh input time claimed a running move of
\* more than 1000 units, to (1150,500), and the claim was stored
C24_Witness ==
    /\ pc = "loop"
    /\ LastIsPosition
    /\ LastBefore.hasReceivedFirstPosition
    /\ last[1].t - LastBefore.lastInputTime <= STALE_MS
    /\ LastBefore.lastPosition = PA
    /\ LastParsed.r = Some(TRUE)
    /\ LastClaimed = PG
    /\ LastDistSq > EXTREME_DISTANCE * EXTREME_DISTANCE
    /\ players[LastSender].lastPosition = PG
    /\ aoiGrid.playerCells[LastSender] = <<5, 2>>

\* the last handled message was a position update that the distance check rejected:
\* the flag was set and was not reset, the distance is beyond the envelope and the
\* floor, and the message is no stop
LastRejected ==
    /\ pc = "loop"
    /\ LastIsPosition
    /\ LastBefore.hasReceivedFirstPosition
    /\ last[1].t - LastBefore.lastInputTime <= STALE_MS
    /\ LastBefore.lastPosition[1] >= 0
    /\ LastBefore.lastPosition[2] >= 0
    /\ LastDistSq <= EXTREME_DISTANCE * EXTREME_DISTANCE
    /\ LastDistSq > maxAllowed * maxAllowed
    /\ LastDistSq >= MIN_DISTANCE * MIN_DISTANCE
    /\ LastParsed.r # Some(FALSE)

\* the stored position and the grid cell of the sender are those before the message
LastPositionKept ==
    /\ players[LastSender].lastPosition = LastBefore.lastPosition
    /\ aoiGrid.playerCells[LastSender] =
           aoiGetCellKey(LastBefore.lastPosition[1], LastBefore.lastPosition[2])

\* direction and running flag of the sender are those of the message, where it has them
LastAnimationApplied ==
    /\ LastParsed.d # Undefined => players[LastSender].direction = LastParsed.d[1]
    /\ LastParsed.r # Undefined => players[LastSender].isRunning = LastParsed.r[1]

\* C25 (as stated): a rejected legacy update leaves the stored position and the grid
\* cell unchanged, applies the direction, the running flag and the collision flag of the
\* message, and marks the player for an outbound update.
C25_RejectedAppliesCollision ==
    LastRejected =>
        /\ LastPositionKept
        /\ LastAnimationApplied
        /\ LastParsed.c # Undefined => players[LastSender].collided = LastParsed.c[1]
        /\ LastSender \in PairKeys(pendingUpdates)

\* C25 (amended): a rejected legacy update leaves the stored position and the grid cell
\* unchanged, applies the direction and the running flag of the message, leaves the
\* stored collision flag as it was, and marks the player for an outbound update.
C25_RejectedKeepsCollision ==
    LastRejected =>
        /\ LastPositionKept
        /\ LastAnimationApplied
        /\ players[LastSender].collided = LastBefore.collided
        /\ LastSender \in PairKeys(pendingUpdates)

\* a running update from (100,100) to (500,500) that reports a collision was rejected
\* and the stored collision flag stayed false
C25_Witness ==
    /\ LastRejected
    /\ LastBefore.lastPosition = PA
    /\ LastClaimed = PB
    /\ LastParsed.c = Some(TRUE)
    /\ ~LastBefore.collided
    /\ ~players[LastSender].collided
    /\ players[LastSender].lastPosition = PA

\* the last handled message was a position update that passed the validity test of
\* line 912: no flag, or a flag the stale/invalid/extreme test reset, or a distance
\* within the envelope or under the floor
LastPassedCheck ==
    /\ pc = "loop"
    /\ LastIsPosition
    /\ \/ ~LastBefore.hasReceivedFirstPosition
       \/ last[1].t - LastBefore.lastInputTime > STALE_MS
       \/ LastBefore.lastPosition[1] < 0
       \/ LastBefore.lastPosition[2] < 0
       \/ LastDistSq > EXTREME_DISTANCE * EXTREME_DISTANCE
       \/ LastDistSq <= maxAllowed * maxAllowed
       \/ LastDistSq < MIN_DISTANCE * MIN_DISTANCE

\* the pending update the last handled message left for its sender
LastUpdate == PairGet(pendingUpdates, LastSender)

\* C26 (as stated): whenever a decoded legacy position update reports a collision or a
\* stop (running = false), accepted or rejected, the pending update recorded for the
\* sender has reliable delivery whatever the reliability flag of the inbound message.
C26_ReliableOnCollisionOrStop ==
    (/\ pc = "loop"
     /\ LastIsPosition
     /\ LastParsed.c = Some(TRUE) \/ LastParsed.r = Some(FALSE))
    => /\ LastSender \in PairKeys(pendingUpdates)
       /\ LastUpdate.reliable

\* C26 (amended): the pending update of a decoded legacy position update has reliable
\* delivery, whatever the inbound flag, when the update reports a collision (accepted or
\* rejected) and when the distance check rejected it (a trusted stop included); an
\* update that passed the check and reports a stop without a collision is recorded with
\* the reliability flag of the inbound message, or reliable when the stored collision
\* flag is set.
C26_ReliableOnCollisionOrReject ==
    (/\ pc = "loop"
     /\ LastIsPosition
     /\ LastParsed.c = Some(TRUE) \/ LastParsed.r = Some(FALSE))
    => /\ LastSender \in PairKeys(pendingUpdates)
       /\ LastParsed.c = Some(TRUE) => LastUpdate.reliable
       /\ ~LastPassedCheck => LastUpdate.reliable
       /\ (LastPassedCheck /\ LastParsed.c # Some(TRUE)) =>
              LastUpdate.reliable = (last[1].m.reliable \/ players[LastSender].collided)

\* an unreliable stop without a collision, inside the envelope, was stored and its
\* pending update is unreliable
C26_Witness ==
    /\ pc = "loop"
    /\ LastIsPosition
    /\ LastBefore.hasReceivedFirstPosition
    /\ LastBefore.lastPosition = PA
    /\ LastClaimed = PA
    /\ LastParsed.r = Some(FALSE)
    /\ LastParsed.c = Some(FALSE)
    /\ ~last[1].m.reliable
    /\ LastSender \in PairKeys(pendingUpdates)
    /\ ~LastUpdate.reliable

\* C27: the collision flag is one-shot.  Every player's collision flag is false when a
\* tick returns, whether or not the tick's update had recipients, so that no later frame
\* carries the collided bit without a new collision.
C27_CollisionOneShot == pc = "idle" => \A u \in DOMAIN players : ~players[u].collided

\* C28: whenever the sender's first-position flag is false (after its join or after a
\* map change), the next decodable legacy position update is accepted without a
\* distance bound: stored position and grid cell become the claimed ones, and the flag
\* is true afterwards.
C28_FirstPositionAccepted ==
    (/\ pc = "loop"
     /\ LastIsPosition
     /\ ~LastBefore.hasReceivedFirstPosition)
    => /\ players[LastSender].lastPosition = LastClaimed
       /\ aoiGrid.playerCells[LastSender] = aoiGetCellKey(LastClaimed[1], LastClaimed[2])
       /\ players[LastSender].hasReceivedFirstPosition

\* after a map change at (100,100) the flag was false, and a running update to
\* (500,500), beyond the envelope and short of 1000 units, was stored
C28_Witness ==
    /\ pc = "loop"
    /\ LastIsPosition
    /\ ~LastBefore.hasReceivedFirstPosition
    /\ LastBefore.currentMap = "indoors"
    /\ LastBefore.lastPosition = PA
    /\ LastParsed.r = Some(TRUE)
    /\ LastClaimed = PB
    /\ LastDistSq > maxAllowed * maxAllowed
    /\ LastDistSq <= EXTREME_DISTANCE * EXTREME_DISTANCE
    /\ players[LastSender].lastPosition = PB
    /\ players[LastSender].hasReceivedFirstPosition

\* the last handled message was a map change of a player that names a map
LastIsMapChange ==
    /\ LastFromPlayer
    /\ last[1].m.opCode = OP_MAP_CHANGE
    /\ last[1].m.data.kind = "json"
    /\ last[1].m.data.obj.map # Undefined

\* C29: a map-change message that names a map sets the sender's sub-map to that name
\* and resets its direction to none, its running flag to false and its first-position
\* flag to false; the sender's position, grid cell, sequence number and pending-update
\* entry stay as they were, and no other player's state changes.
C29_MapChange ==
    [][(TakesMessage /\ LastIsMapChange')
       => /\ players' = [players EXCEPT ![LastSender'] =
                            [@ EXCEPT !.currentMap = last'[1].m.data.obj.map[1],
                                      !.direction = DIR_NONE,
                                      !.isRunning = FALSE,
                                      !.hasReceivedFirstPosition = FALSE]]
          /\ UNCHANGED <<aoiGrid, pendingUpdates>>]_vars

\* a player that was running to the right with the flag set and a pending update
\* changed from outdoors to indoors next to another player
C29_Witness ==
    /\ pc = "loop"
    /\ LastIsMapChange
    /\ LastBefore.isRunning
    /\ LastBefore.direction = DIR_RIGHT
    /\ LastBefore.hasReceivedFirstPosition
    /\ LastBefore.currentMap = "outdoors"
    /\ last[1].hadUpdate
    /\ players[LastSender].currentMap = "indoors"
    /\ players[LastSender].direction = DIR_NONE
    /\ ~players[LastSender].isRunning
    /\ ~players[LastSender].hasReceivedFirstPosition
    /\ players[LastSender].lastPosition = LastBefore.lastPosition
    /\ LastSender \in PairKeys(pendingUpdates)
    /\ Cardinality(DOMAIN players) = 2

\* C30: a decoded authoritative input overwrites the sender's direction, running flag,
\* sequence number and last-input time with the decoded values and the time of the
\* tick, whatever they were, records a reliable pending update for the sender, and
\* leaves its position, grid cell, sub-map and first-position flag unchanged.
C30_InputApplied ==
    [][(TakesMessage /\ LastIsInput')
       => LET input == decodePlayerInput(last'[1].m.data)[1]
          IN  /\ players' = [players EXCEPT ![LastSender'] =
                                [@ EXCEPT !.direction = input.direction,
                                          !.isRunning = input.isRunning,
                                          !.lastInputSequence = input.sequence,
                                          !.lastInputTime = now]]
              /\ aoiGrid' = aoiGrid
              /\ LastSender' \in PairKeys(pendingUpdates')
              /\ PairGet(pendingUpdates', LastSender').reliable
              /\ PairGet(pendingUpdates', LastSender').opCode = OP_SERVER_POSITION]_vars

\* an input with sequence 3 reached a player whose sequence was 5, whose flag was set
\* and who stood on the position it had claimed: the sequence is 3, the rest is kept
C30_Witness ==
    /\ pc = "loop"
    /\ LastIsInput
    /\ LastBefore.lastInputSequence = 5
    /\ LastBefore.hasReceivedFirstPosition
    /\ LastBefore.lastPosition = PB
    /\ decodePlayerInput(last[1].m.data)[1].sequence = 3
    /\ players[LastSender].lastInputSequence = 3
    /\ players[LastSender].direction = DIR_RIGHT
    /\ players[LastSender].lastPosition = PB
    /\ players[LastSender].hasReceivedFirstPosition
    /\ PairGet(pendingUpdates, LastSender).reliable

----------------------------------------------------------------------------
(* The indexes of the grid and the session *)

\* the cells whose member set holds the user
CellsOf(u) == {c \in DOMAIN aoiGrid.cells : u \in aoiGrid.cells[c]}

\* C37: after any sequence of aoiUpdatePlayer and aoiRemovePlayer calls a player id is
\* a member of at most one cell, and every cell of the forward index has a member.
C37_OneCellNoEmptyCell ==
    /\ \A u \in UserIds : Cardinality(CellsOf(u)) <= 1
    /\ \A c \in DOMAIN aoiGrid.cells : aoiGrid.cells[c] # {}

\* two players share the first cell, the third is alone in another one, and the
\* forward index holds these two cells and no other
C37_Witness ==
    /\ DOMAIN aoiGrid.playerCells = UserIds
    /\ DOMAIN aoiGrid.cells = {<<0, 0>>, <<2, 2>>}
    /\ aoiGrid.cells[<<0, 0>>] = {"u1", "u3"}
    /\ aoiGrid.cells[<<2, 2>>] = {"u2"}

\* C34: in every reachable session state the ids of the grid's reverse index are the
\* ids of the player map, and every id with a pending update is in the player map.
C34_IndexesAgree ==
    /\ DOMAIN aoiGrid.playerCells = DOMAIN players
    /\ PairKeys(pendingUpdates) \subseteq DOMAIN players

\* matchLeave has removed one of two players: the one that stays is in both maps,
\* the one that left in neither
C34_Witness ==
    /\ \E i \in 1..Len(sent) : sent[i].opCode = OP_PLAYER_LEFT /\ sent[i].data.userId = "u1"
    /\ DOMAIN players = {"u2"}
    /\ DOMAIN aoiGrid.playerCells = {"u2"}
    /\ players["u2"].lastPosition = PB

\* C33: a message whose sender is not in the player map is ignored: the step that takes
\* it changes neither players, grid, pending updates nor the dispatched messages, and
\* the loop goes on; no frame of a tick comes from an id outside the player map; and a
\* user that matchLeave removed has no player state, grid entry or pending update while
\* the next tick takes its messages.
C33_UnknownSenderIgnored ==
    /\ [][(TakesMessage /\ last'[1].before = Undefined)
          => /\ UNCHANGED <<players, aoiGrid, pendingUpdates, sent>>
             /\ pc' = "loop"]_vars
    /\ [](\A f \in PositionFrames : FrameSender(f) \in DOMAIN players)
    /\ [](\A u \in departed :
              /\ u \notin DOMAIN players
              /\ u \notin DOMAIN aoiGrid.playerCells
              /\ \A c \in DOMAIN aoiGrid.cells : u \notin aoiGrid.cells[c]
              /\ u \notin PairKeys(pendingUpdates))

\* matchLeave removed a player, the next tick took a decodable position update of
\* that user, and the player that stayed is the only one in the session
C33_Witness ==
    /\ pc = "loop"
    /\ last # <<>>
    /\ last[1].before = Undefined
    /\ last[1].m.sender \in departed
    /\ last[1].m.opCode = OP_PLAYER_MOVE
    /\ DecodeLegacy(last[1].m.data) # Undefined
    /\ DOMAIN players = UserIds \ (departed \cup {"u3"})
    /\ Cardinality(DOMAIN players) = 1
    /\ pendingUpdates = <<>>

----------------------------------------------------------------------------
(* The dispatch at the end of a tick *)

\* the step that leaves the loop over the messages and dispatches the pending updates
Dispatches == pc = "loop" /\ pc' = "idle"

\* the messages of the last handler that carry player s as their sender
FramesFrom(s) ==
    {i \in 1..Len(sent) :
        sent[i].sender = Some([userId |-> players[s].userId,
                               sessionId |-> players[s].sessionId])}

InInterest(s, r) ==
    /\ players[r].currentMap = players[s].currentMap
    /\ JsLeq(DistSq(players[r].lastPosition, players[s].lastPosition),
             AOI_RADIUS * AOI_RADIUS)

\* C31: when a tick dispatches, every sender with a pending update has a frame whose
\* recipients hold every other player on the sender's map whose stored position is
\* within AOI_RADIUS, straight-line, of the sender's stored position.
C31_InterestCovered ==
    [][Dispatches =>
          \A s \in PairKeys(pendingUpdates) \cap DOMAIN players :
              \A r \in DOMAIN players \ {s} :
                  InInterest(s, r) => \E i \in FramesFrom(s)' : r \in sent'[i].to]_vars

\* a tick has dispatched the frame of a sender to a player five cell columns away
C31_Witness ==
    /\ pc = "idle"
    /\ \E s \in DOMAIN players, r \in DOMAIN players :
          /\ players[s].lastPosition = PLow
          /\ players[r].lastPosition = PHigh
          /\ \E i \in FramesFrom(s) : r \in sent[i].to

\* the players in the block of cells scanned around the stored position of s, on the
\* map of s, without s itself
Filtered(s) ==
    LET cell(u) == aoiGetCellKey(players[u].lastPosition[1], players[u].lastPosition[2])
        span == cellRadius(AOI_RADIUS)
        Near(a, b) == IsNumber(a) /\ IsNumber(b) /\ a - b <= span /\ b - a <= span
    IN  {r \in DOMAIN players \ {s} :
            /\ Near(cell(r)[1], cell(s)[1])
            /\ Near(cell(r)[2], cell(s)[2])
            /\ players[r].currentMap = players[s].currentMap}

\* C32: when a tick dispatches, every message it sends carries the userId and sessionId
\* of one player as its sender; a player is the sender of at most one message, and of
\* one exactly when it has a pending update and its filtered recipient set is not empty;
\* the message is addressed to that set and to nobody else, and never to its sender.
C32_OneFramePerSender ==
    [][Dispatches =>
          /\ \A i \in 1..Len(sent') : \E s \in DOMAIN players : i \in FramesFrom(s)'
          /\ \A s \in DOMAIN players :
                /\ Cardinality(FramesFrom(s)') <= 1
                /\ FramesFrom(s)' # {} <=>
                       (s \in PairKeys(pendingUpdates) /\ Filtered(s) # {})
                /\ \A i \in FramesFrom(s)' :
                      /\ ~sent'[i].toAll
                      /\ sent'[i].to = Filtered(s)
                      /\ s \notin sent'[i].to]_vars

\* a tick has dispatched two frames, one of each of two senders, each to the other
C32_Witness ==
    /\ pc = "idle"
    /\ Len(sent) = 2
    /\ \E s \in DOMAIN players, r \in DOMAIN players :
          /\ s # r
          /\ \E i \in FramesFrom(s) : sent[i].to = {r}
          /\ \E i \in FramesFrom(r) : sent[i].to = {s}

----------------------------------------------------------------------------
(* The position frame on values outside the ranges of its fields *)

\* the integer n wrapped modulo 2^16 into -32768..32767
Wrap16(n) == ((n + 32768) % 65536) - 32768

\* C38: for every x, y, direction and sequence, in range or not, encodeServerPosition
\* returns a frame of 9 bytes with byte 0 = 4 and byte 8 = 0, whose direction byte is
\* the direction modulo 8, whose sequence byte is the sequence modulo 256, and whose
\* int16 fields hold the rounded x and y wrapped modulo 2^16 into -32768..32767.
C38_OutOfRangeWraps ==
    codec.fn = "encodeServerPosition" =>
        LET f == codec.output
            v == codec.input
        IN  /\ Len(f) = 9
            /\ \A i \in 1..9 : f[i] \in 0..255
            /\ f[1] = 4
            /\ f[9] = 0
            /\ f[6] = v.direction % 8
            /\ f[8] = v.sequence % 256
            /\ GetInt16LE(f[2], f[3]) = Wrap16(MathRound(v.x))
            /\ GetInt16LE(f[4], f[5]) = Wrap16(MathRound(v.y))
            /\ GetInt16LE(f[2], f[3]) \in -32768..32767
            /\ GetInt16LE(f[4], f[5]) \in -32768..32767

\* x = 32767.5 is stored as -32768, y = 32768 as -32768, direction 9 as 1, sequence 300
\* as 44
C38_Witness ==
    /\ codec.fn = "encodeServerPosition"
    /\ codec.input = [x |-> Quarters(131070), y |-> Quarters(131072), direction |-> 9,
                      isRunning |-> TRUE, sequence |-> 300, collided |-> FALSE]
    /\ codec.output = <<4, 0, 128, 0, 128, 1, 1, 44, 0>>

----------------------------------------------------------------------------
(* What the players are told about each other *)

\* C36: every player in the session has been told about every other player in the
\* session, by the roster of its welcome or by a player-joined notification delivered
\* to it, a notification without a list of recipients being delivered to every
\* connection in the match.
C36_EveryoneTold ==
    \A u \in DOMAIN players : (DOMAIN players) \ {u} \subseteq known[u]

\* matchJoin of one user into a session of two players: the roster of its welcome
\* names the three players, and the two have the notification of the third
C36_Witness ==
    /\ Cardinality(DOMAIN players) = 3
    /\ Len(sent) = 2
    /\ sent[1].opCode = OP_WELCOME
    /\ Cardinality(DOMAIN sent[1].data.players) = 3
    /\ C36_EveryoneTold

----------------------------------------------------------------------------
(* The order of the messages of a tick *)

\* the batches that hold the messages of b with the messages of each sender in the
\* order they have in b
Interleavings(b) ==
    LET n == Len(b)
        perms == {f \in [1..n -> 1..n] : \A i, j \in 1..n : i # j => f[i] # f[j]}
        keeps(f) == \A i, j \in 1..n :
                        (i < j /\ b[f[i]].sender = b[f[j]].sender) => f[i] < f[j]
    IN  {[i \in 1..n |-> b[f[i]]] : f \in {g \in perms : keeps(g)}}

\* the messages of a sequence, as a set
FrameSet(msgs) == {msgs[i] : i \in 1..Len(msgs)}

\* C35: when matchLoop has run on a batch, matchLoop on any batch of the same messages
\* that keeps the order of each sender's messages ends the same way: it throws when
\* the tick threw, and otherwise leaves the same players, grid and pending updates and
\* dispatches the same set of frames (opcode, payload, recipients, sender, reliability).
C35_InterleavingIrrelevant ==
    [][(pc = "idle" /\ handled' # handled) =>
          \A other \in Interleavings(batch') :
              LET o == matchLoop([State EXCEPT !.sent = <<>>], other, now)
              IN  /\ o.threw = (pc' = "error")
                  /\ ~o.threw =>
                        /\ o.players = players'
                        /\ o.aoiGrid = aoiGrid'
                        /\ o.pendingUpdates = pendingUpdates'
                        /\ FrameSet(o.sent) = FrameSet(sent')]_vars

\* a tick took a message of u1, one of u2 and another of u1, and dispatched a frame of
\* each of the two
C35_Witness ==
    /\ pc = "idle"
    /\ Len(batch) = 3
    /\ batch[1].sender = "u1"
    /\ batch[2].sender = "u2"
    /\ batch[3].sender = "u1"
    /\ batch[1] # batch[3]
    /\ Len(sent) = 2
    /\ \A i \in 1..2 : sent[i].opCode = OP_SERVER_POSITION
    /\ FramesFrom("u1") # {}
    /\ FramesFrom("u2") # {}

====
